---- MODULE Spec2Model ----
(***************************************************************************)
(* Training / evaluation / export flows of the real-time-inference         *)
(* repository: the Titanic training scripts (RandomForest, LightGBM), the  *)
(* standalone PMML export scripts, the Iris script and model_export.       *)
(*                                                                         *)
(* A CSV file is a set of column names and a sequence of rows of text      *)
(* cells ("" is an empty cell).  A data frame is what pandas makes of it:  *)
(* a dtype per column and, per row, an index label and a value per column. *)
(* A value is [k |-> "num" | "str" | "nan", s |-> its text].               *)
(***************************************************************************)
EXTENDS Integers, Sequences, FiniteSets, TLC

\* ------------------------------------------------------------ bounds
\* Longest free prefix of rows of a data file.
MaxPre == 1
\* Largest --n-trials value explored.
MaxTrials == 2
\* Largest explicit --tune-sample-size value explored is 4 * MaxSampleQuarter.
MaxSampleQuarter == 2

\* ------------------------------------------------------------ columns
FEATURES == <<"Pclass", "Sex", "Age", "SibSp", "Parch", "Fare", "Embarked">>
TARGET == "Survived"
NUMERIC_FEATURES == <<"Age", "SibSp", "Parch", "Fare">>
CATEGORICAL_FEATURES == <<"Pclass", "Sex", "Embarked">>
STRING_FEATURES == CATEGORICAL_FEATURES

Range(s) == {s[i] : i \in 1..Len(s)}

\* set(FEATURES + [TARGET])
RequiredColumns == Range(FEATURES) \cup {TARGET}
\* A column a file may carry beyond the required ones.
ExtraColumn == "Cabin"
AllColumns == RequiredColumns \cup {ExtraColumn}

\* ------------------------------------------------------------ values
NaN == [k |-> "nan", s |-> ""]
Num(t) == [k |-> "num", s |-> t]
Str(t) == [k |-> "str", s |-> t]
IsNa(v) == v.k = "nan"

\* Texts that parse as a number (the numerals the data files below use).
NumericTexts == {"0", "1", "3", "7", "22", "38", "71"}

\* ------------------------------------------------------------ data files
\* Rows of the files explored, as text cells.
RowOk0 ==
    [Pclass |-> "3", Sex |-> "male", Age |-> "22", SibSp |-> "1", Parch |-> "0",
     Fare |-> "7", Embarked |-> "S", Survived |-> "0", Cabin |-> ""]
RowOk1 ==
    [Pclass |-> "1", Sex |-> "female", Age |-> "38", SibSp |-> "1", Parch |-> "0",
     Fare |-> "71", Embarked |-> "C", Survived |-> "1", Cabin |-> "C85"]
\* target cell empty
RowNoTarget == [RowOk1 EXCEPT !.Survived = ""]
\* numeric feature empty
RowAgeNa == [RowOk0 EXCEPT !.Age = "", !.Survived = "1"]
\* numeric feature holding a non-numeric string
RowAgeStr == [RowOk0 EXCEPT !.Age = "abc"]
\* categorical feature empty
RowEmbNa == [RowOk1 EXCEPT !.Embarked = ""]
\* target empty and numeric feature unparseable
RowNoTargetAgeStr == [RowOk0 EXCEPT !.Age = "abc", !.Survived = ""]

RowKinds == {RowOk0, RowOk1, RowNoTarget, RowAgeNa, RowAgeStr, RowEmbNa, RowNoTargetAgeStr}

\* Three rows of each class: enough for a stratified subsample of four rows
\* that a stratified train/validation split then accepts.
BaseRows == <<RowOk0, RowOk1, RowOk0, RowOk1, RowOk0, RowOk1>>

SeqsUpTo(S, n) == UNION {[1..m -> S] : m \in 0..n}

RowSeqs == {pre \o mid : pre \in SeqsUpTo(RowKinds, MaxPre), mid \in {<<>>, BaseRows}}

\* Column sets of the files explored: the required columns, with or without an
\* extra one, and with up to two required columns absent.
ColumnSets ==
    {(RequiredColumns \ drop) \cup extra :
        drop \in {{}, {"Age"}, {TARGET}, {"Age", TARGET}, {"Embarked"}},
        extra \in {{}, {ExtraColumn}}}

Csv(cols, rows) ==
    [cols |-> cols, rows |-> [i \in 1..Len(rows) |-> [c \in cols |-> rows[i][c]]]]

CsvFiles ==
    {Csv(RequiredColumns, rows) : rows \in RowSeqs}
    \cup {Csv(cols, rows) : cols \in ColumnSets, rows \in {<<RowNoTarget>> \o BaseRows}}

\* ------------------------------------------------------------ pandas
\* pd.read_csv: a column whose non-empty cells all parse as numbers is int64
\* (no empty cell) or float64 (some empty cell); any other column is object.
ColumnTexts(csv, c) == {csv.rows[i][c] : i \in 1..Len(csv.rows)}

InferDtype(csv, c) ==
    LET texts == ColumnTexts(csv, c)
    IN  IF texts = {} \/ ~(texts \ {""} \subseteq NumericTexts) THEN "object"
        ELSE IF "" \in texts THEN "float64"
        ELSE "int64"

ReadCell(dtype, t) ==
    IF t = "" THEN NaN
    ELSE IF dtype = "object" THEN Str(t)
    ELSE Num(t)

\* The frame keeps the file's rows in order under a RangeIndex 0..n-1.
read_csv(csv) ==
    LET dt == [c \in csv.cols |-> InferDtype(csv, c)]
    IN  [cols |-> csv.cols,
         dtype |-> dt,
         rows |-> [i \in 1..Len(csv.rows) |->
                     [idx |-> i - 1,
                      cells |-> [c \in csv.cols |-> ReadCell(dt[c], csv.rows[i][c])]]]]

Index(rows) == [i \in 1..Len(rows) |-> rows[i].idx]

\* str() of a value: a float64 number prints with a decimal point, a missing
\* value prints as "nan".
ToStr(dtype, v) ==
    IF v.k = "nan" THEN Str("nan")
    ELSE IF v.k = "num" /\ dtype = "float64" THEN Str(v.s \o ".0")
    ELSE Str(v.s)

\* pd.to_numeric(errors="coerce")
ToNumeric(v) ==
    IF v.k = "num" THEN v
    ELSE IF v.k = "str" /\ v.s \in NumericTexts THEN Num(v.s)
    ELSE NaN

\* ------------------------------------------------------------ scripts
\* The entry points, by the file that holds their main().
RF == "src/src/train_random_forest.py"
LGBM == "src/src/train_lightgbm.py"
TITANIC_LGBM == "src/titanic/train_lightgbm.py"
ROOT_RF == "src/train_random_forest.py"
EXPORT_PMML == "src/src/export_to_pmml.py"
TITANIC_EXPORT_PMML == "src/titanic/export_to_pmml.py"
IRIS == "src/train.py"

TrainingScripts == {RF, LGBM, TITANIC_LGBM, ROOT_RF}
ExportScripts == {EXPORT_PMML, TITANIC_EXPORT_PMML}
Scripts == TrainingScripts \cup ExportScripts \cup {IRIS}

\* ------------------------------------------------------------ load_dataset
NoFrame == [cols |-> <<>>, dtype |-> <<>>, rows |-> <<>>]
NoSeries == [dtype |-> "", rows |-> <<>>]
NoError == [type |-> "", columns |-> {}, at |-> ""]
Error(type, columns, at) == [type |-> type, columns |-> columns, at |-> at]

\* The difference taken both ways: extra columns are reported as missing too.
MissingCols_Symmetric(df) == (RequiredColumns \ df.cols) \cup (df.cols \ RequiredColumns)

\* set(FEATURES + [TARGET]) - set(df.columns)
MissingCols(df) == RequiredColumns \ df.cols

\* df.dropna() without the subset: a row with any missing cell is dropped.
DropNaTarget_AnyColumn(df) ==
    LET Keep(r) == \A c \in RequiredColumns : ~IsNa(r.cells[c])
    IN  SelectSeq(df.rows, Keep)

\* df.dropna(subset=[TARGET])
DropNaTarget(df) ==
    LET Keep(r) == ~IsNa(r.cells[TARGET])
    IN  SelectSeq(df.rows, Keep)

\* The categorical columns as the loader of train_lightgbm.py rewrites them:
\* astype("string").fillna("missing").astype(str).
FillCategorical(dtype, v) == IF IsNa(v) THEN Str("missing") ELSE ToStr(dtype, v)

LoaderCell(script, df, c, v) ==
    IF script = LGBM /\ c \in Range(CATEGORICAL_FEATURES)
    THEN FillCategorical(df.dtype[c], v)
    ELSE v

LoaderDtype(script, df, c) ==
    IF script = LGBM /\ c \in Range(CATEGORICAL_FEATURES) THEN "object" ELSE df.dtype[c]

\* load_dataset(path) of a training script: the error raised, or (X, y).
load_dataset(script, csv) ==
    LET df == read_csv(csv)
        missing_cols == MissingCols(df)
        kept == DropNaTarget(df)
    IN  IF missing_cols # {}
        THEN [err |-> Error("ValueError", missing_cols, "load_dataset"),
              X |-> NoFrame, y |-> NoSeries]
        ELSE IF kept # <<>> /\ df.dtype[TARGET] = "object"
        THEN [err |-> Error("ValueError", {}, "astype"), X |-> NoFrame, y |-> NoSeries]
        ELSE [err |-> NoError,
              X |-> [cols |-> FEATURES,
                     dtype |-> [c \in Range(FEATURES) |-> LoaderDtype(script, df, c)],
                     rows |-> [i \in 1..Len(kept) |->
                                 [idx |-> kept[i].idx,
                                  cells |-> [c \in Range(FEATURES) |->
                                               LoaderCell(script, df, c, kept[i].cells[c])]]]],
              y |-> [dtype |-> "int64",
                     rows |-> [i \in 1..Len(kept) |->
                                 [idx |-> kept[i].idx, v |-> kept[i].cells[TARGET]]]]]

\* ------------------------------------------------------------ PMML cleaning
\* Selection by position instead of by label: the first Len(labels) entries.
Loc_ByPosition(rows, labels) == [i \in 1..Len(labels) |-> rows[i]]

\* y.loc[labels]: the entries of y under the given index labels, in their order.
Loc(rows, labels) ==
    [i \in 1..Len(labels) |->
        rows[CHOOSE j \in 1..Len(rows) : rows[j].idx = labels[i]]]

HasNa(r, cols) == \E c \in cols : IsNa(r.cells[c])

\* X.dropna(): the rows with no missing value in any column.
DropNa(rows, cols) ==
    LET Keep(r) == ~HasNa(r, cols)
    IN  SelectSeq(rows, Keep)

\* The type normalisation of one cell: numeric columns through to_numeric,
\* every other column through astype(str).
NormaliseCell(numeric, dtype, c, v) ==
    IF c \in numeric THEN ToNumeric(v) ELSE ToStr(dtype, v)

\* export_pipeline_to_pmml, lines 34-47: the cleaned (X_pmml, y_pmml).
CleanForPmml(X, y, features, numeric_features) ==
    LET cols == Range(features)
        numeric == Range(numeric_features)
        y_pmml == Loc(y.rows, Index(X.rows))
        normalised ==
            [i \in 1..Len(X.rows) |->
                [idx |-> X.rows[i].idx,
                 cells |-> [c \in cols |->
                              NormaliseCell(numeric, X.dtype[c], c, X.rows[i].cells[c])]]]
        valid == DropNa(normalised, cols)
    IN  [X |-> [cols |-> features, dtype |-> X.dtype, rows |-> valid],
         y |-> [dtype |-> y.dtype, rows |-> Loc(y_pmml, Index(valid))]]

\* main() of the export_to_pmml scripts, from read_csv to y.loc[X.index]:
\* df[FEATURES] and df[TARGET] raise KeyError on an absent column.
CleanInScript(csv) ==
    LET df == read_csv(csv)
        cols == Range(FEATURES)
        numeric == Range(NUMERIC_FEATURES)
        y == [i \in 1..Len(df.rows) |->
                [idx |-> df.rows[i].idx, v |-> df.rows[i].cells[TARGET]]]
        normalised ==
            [i \in 1..Len(df.rows) |->
                [idx |-> df.rows[i].idx,
                 cells |-> [c \in cols |->
                              NormaliseCell(numeric, df.dtype[c], c, df.rows[i].cells[c])]]]
        valid == DropNa(normalised, cols)
    IN  IF ~(RequiredColumns \subseteq df.cols)
        THEN [err |-> Error("KeyError", RequiredColumns \ df.cols, "main"),
              X |-> NoFrame, y |-> NoSeries]
        ELSE [err |-> NoError,
              X |-> [cols |-> FEATURES,
                     dtype |-> [c \in cols |-> df.dtype[c]],
                     rows |-> valid],
              y |-> [dtype |-> df.dtype[TARGET], rows |-> Loc(y, Index(valid))]]


\* ------------------------------------------------------------ state
VARIABLES
    script,     \* the entry point that runs
    pc,         \* its position in main()
    err,        \* the exception that ended the run, NoError while it runs
    args,       \* the parsed command line
    dataFile,   \* the CSV file at args.data (or data_path)
    testFile,   \* the CSV file at args.test_data, once read
    train,      \* (X_train_full, y_train_full)
    external,   \* (X_external, y_external)
    tune,       \* tune_hyperparameters: the rows searched on, the study
    pipeline,   \* the pipeline object of main()
    fit,        \* the most recent call of fit: who made it and the labels it got
    cleaned,    \* (X_pmml, y_pmml) of the most recent PMML cleaning
    fs,         \* the directories and files written to
    warnings,   \* the [WARN] lines printed to stderr
    calls,      \* the calls made of a function under study, oldest first
    registry,   \* skl2onnx's converter registry and the _done flag, per process
    onnx,       \* export_pipeline_to_onnx: the arguments and locals of the last call
    procs,      \* concurrent invocations: the position of each in its main()
    heap        \* the objects build_pipeline's callers hold, by object id

\* The state outside main() of one invocation.
library == <<calls, registry, onnx, procs, heap>>

vars ==
    <<script, pc, err, args, dataFile, testFile, train, external, tune, pipeline,
      fit, cleaned, fs, warnings, calls, registry, onnx, procs, heap>>

\* ------------------------------------------------------------ paths
DEFAULT_REPORT_DIR(s) ==
    IF s = RF THEN "reports/titanic/random_forest" ELSE "reports/titanic/lightgbm"

DEFAULT_MODEL_PATH(s) ==
    IF s = ROOT_RF THEN "models/random_forest_pipeline.pkl"
    ELSE IF s = TITANIC_LGBM THEN "models/titanic/lightgbm_pipeline.pkl"
    ELSE "models/titanic/random_forest_pipeline.pkl"

ModelDir(s) == IF s = ROOT_RF THEN "models" ELSE "models/titanic"

DEFAULT_PMML_PATH == "model/titanic_lightgbm.pmml"
DEFAULT_ONNX_PATH == "model/titanic_lightgbm.onnx"
ExportOutputPath == "model/titanic_random_forest.pmml"
ExportDir == "model"

\* ------------------------------------------------------------ arguments
NoArgs ==
    [n_trials |-> 0, tune_sample_size |-> 0, test_size |-> 0,
     skip_pmml |-> FALSE, skip_onnx |-> FALSE]

\* The defaults of parse_args(); --test-size is held in percent.
DEFAULT_N_TRIALS == 1
DEFAULT_TUNE_SAMPLE_SIZE == 200000
DEFAULT_TEST_SIZE == 20

DefaultArgs ==
    [n_trials |-> DEFAULT_N_TRIALS, tune_sample_size |-> DEFAULT_TUNE_SAMPLE_SIZE,
     test_size |-> DEFAULT_TEST_SIZE, skip_pmml |-> FALSE, skip_onnx |-> FALSE]

TestSizes == {DEFAULT_TEST_SIZE, 50}
\* The sizes explored: multiples of four, the default, and the size of the
\* base file (one row less than the largest training set, so that the
\* subsample split leaves a single row on its other side and is refused).
SampleSizes ==
    {4 * k : k \in 0..MaxSampleQuarter} \cup {Len(BaseRows), DEFAULT_TUNE_SAMPLE_SIZE}

\* parse_args(): --skip-pmml and --skip-onnx exist in train_lightgbm.py only.
ArgSets(s) ==
    [n_trials : 0..MaxTrials, tune_sample_size : SampleSizes, test_size : TestSizes,
     skip_pmml : IF s = LGBM THEN BOOLEAN ELSE {FALSE},
     skip_onnx : IF s = LGBM THEN BOOLEAN ELSE {FALSE}]

\* The data files every command line is explored with; the other files are
\* explored with the default command line.
ArgFiles == {Csv(RequiredColumns, BaseRows), Csv(RequiredColumns, <<RowAgeNa>> \o BaseRows)}

CommandLines(s, csv) == IF csv \in ArgFiles THEN ArgSets(s) ELSE {DefaultArgs}

\* ------------------------------------------------------------ initial state
NoData == [X |-> NoFrame, y |-> NoSeries]
NoCsv == [cols |-> {}, rows |-> <<>>]
NoTune == [rows |-> {}, inputs |-> {}, n_done |-> 0, best |-> <<>>]
NoPipeline == [estimator |-> "", hyper |-> <<>>, fitted |-> FALSE, rows |-> {}]
NoFit == [by |-> "", y |-> <<>>]
EmptyFs == [dirs |-> {}, files |-> <<>>]

\* No call made, a fresh process, no concurrent invocation, no object.
NoRegistry == [done |-> FALSE, shape_calculators |-> {}, registered |-> <<>>]
NoOnnx == [called |-> FALSE]
LibraryIdle ==
    /\ calls = <<>>
    /\ registry = NoRegistry
    /\ onnx = NoOnnx
    /\ procs = <<>>
    /\ heap = <<>>

\* A pickled pipeline left by an earlier training run.
StalePickle == [kind |-> "pickle", by |-> "earlier run"]

\* The PMML and ONNX files left at the default paths by an earlier run of
\* train_lightgbm.py.
StaleExports ==
    [dirs |-> {ExportDir},
     files |-> (DEFAULT_PMML_PATH :> [kind |-> "stale", by |-> "earlier run"])
               @@ (DEFAULT_ONNX_PATH :> [kind |-> "stale", by |-> "earlier run"])]

InitialFs(s) ==
    IF s \in ExportScripts
    THEN {EmptyFs,
          [dirs |-> {ModelDir(RF)},
           files |-> (DEFAULT_MODEL_PATH(RF) :> StalePickle)]}
    ELSE IF s = LGBM THEN {EmptyFs, StaleExports}
    ELSE {EmptyFs}

\* The earlier exports are explored with the complete six-row data file.
InitialFsWith(s, csv) ==
    IF s = LGBM /\ csv # Csv(RequiredColumns, BaseRows) THEN {EmptyFs} ELSE InitialFs(s)

Init ==
    /\ script \in Scripts
    /\ pc = "start"
    /\ err = NoError
    /\ args = NoArgs
    /\ dataFile \in (IF script = IRIS THEN {NoCsv} ELSE CsvFiles)
    /\ testFile = NoCsv
    /\ train = NoData
    /\ external = NoData
    /\ tune = NoTune
    /\ pipeline = NoPipeline
    /\ fit = NoFit
    /\ cleaned = NoData
    /\ fs \in InitialFsWith(script, dataFile)
    /\ warnings = {}
    /\ LibraryIdle

\* The run ends with an uncaught exception.
Raise(e) ==
    /\ pc' = "failed"
    /\ err' = e

\* ------------------------------------------------------------ training: load
\* args = parse_args()
ParseArgs ==
    /\ script \in TrainingScripts
    /\ pc = "start"
    /\ \E a \in CommandLines(script, dataFile) : args' = a
    /\ pc' = "parsed"
    /\ UNCHANGED <<library, script, err, dataFile, testFile, train, external, tune, pipeline,
                   fit, cleaned, fs, warnings>>

\* X_train_full, y_train_full = load_dataset(args.data)
LoadTrain ==
    /\ script \in TrainingScripts
    /\ pc = "parsed"
    /\ LET r == load_dataset(script, dataFile)
       IN  IF r.err # NoError
           THEN Raise(r.err) /\ UNCHANGED train
           ELSE /\ train' = [X |-> r.X, y |-> r.y]
                /\ pc' = "loaded_train"
                /\ UNCHANGED err
    /\ UNCHANGED <<library, script, args, dataFile, testFile, external, tune, pipeline, fit,
                   cleaned, fs, warnings>>

\* The files args.test_data may name: the training file itself (the default),
\* one with a single class, one lacking a column.
TestFiles(data) ==
    {data,
     Csv(RequiredColumns, <<RowOk1, RowNoTarget, RowOk1>>),
     Csv(RequiredColumns \ {"Fare"}, <<RowOk0, RowOk1>>)}

\* X_external, y_external = load_dataset(args.test_data)
LoadTest ==
    /\ script \in TrainingScripts
    /\ pc = "loaded_train"
    /\ \E f \in TestFiles(dataFile) :
        LET r == load_dataset(script, f)
        IN  /\ testFile' = f
            /\ IF r.err # NoError
               THEN Raise(r.err) /\ UNCHANGED external
               ELSE /\ external' = [X |-> r.X, y |-> r.y]
                    /\ pc' = "loaded"
                    /\ UNCHANGED err
    /\ UNCHANGED <<library, script, args, dataFile, train, tune, pipeline, fit, cleaned, fs,
                   warnings>>


\* ------------------------------------------------------------ train_test_split
IdxOf(rows) == {rows[i].idx : i \in 1..Len(rows)}

\* The labels of the rows of y whose index label is in S, by index label.
LabelsOf(y, S) ==
    [i \in S |-> (CHOOSE r \in Range(y.rows) : r.idx = i).v]

Classes(labels) == {labels[i] : i \in DOMAIN labels}

\* A label vector as fit receives it, up to order: each value with the number
\* of rows that carry it.
LabelVector(labels) ==
    [v \in Classes(labels) |-> Cardinality({i \in DOMAIN labels : labels[i] = v})]
CountOf(labels, c) == Cardinality({i \in DOMAIN labels : labels[i] = c})

\* n_test of a float test_size (in percent): ceil(test_size * n_samples).
NTestOfFraction(pct, n) == (pct * n + 99) \div 100

\* What StratifiedShuffleSplit refuses: an empty side, a class with fewer than
\* two members, a side smaller than the number of classes.
StratifyFails(labels, n_train, n_test) ==
    \/ n_train <= 0
    \/ n_test <= 0
    \/ \E c \in Classes(labels) : CountOf(labels, c) < 2
    \/ n_train < Cardinality(Classes(labels))
    \/ n_test < Cardinality(Classes(labels))

\* The train sides a stratified split may return: n_train rows, each class
\* represented by the floor or the ceiling of its proportional share.
StratifiedSubsets(labels, n_train) ==
    LET n == Cardinality(DOMAIN labels)
    IN  {S \in SUBSET (DOMAIN labels) :
            /\ Cardinality(S) = n_train
            /\ \A c \in Classes(labels) :
                LET k == Cardinality({i \in S : labels[i] = c})
                    share == n_train * CountOf(labels, c)
                IN  /\ k * n >= share - (n - 1)
                    /\ k * n <= share + (n - 1)}

\* ------------------------------------------------------------ search space
\* The bounds of the ranges the objective samples from, per parameter.
SearchSpace(s) ==
    IF s \in {RF, ROOT_RF}
    THEN [n_estimators |-> <<"200", "800">>, max_depth |-> <<"4", "20">>,
          min_samples_split |-> <<"2", "8">>, min_samples_leaf |-> <<"1", "6">>,
          max_features |-> <<"sqrt", "None">>, bootstrap |-> <<"True", "False">>]
    ELSE [n_estimators |-> <<"300", "1200">>, learning_rate |-> <<"0.01", "0.2">>,
          num_leaves |-> <<"16", "256">>, subsample |-> <<"0.6", "1.0">>,
          colsample_bytree |-> <<"0.6", "1.0">>, min_child_samples |-> <<"10", "200">>,
          reg_alpha |-> <<"1e-8", "10.0">>, reg_lambda |-> <<"1e-8", "10.0">>]

\* The params dict of a trial that drew end d of every range.
TrialParams(s, d) == [name \in DOMAIN SearchSpace(s) |-> SearchSpace(s)[name][d]]

HyperNames(s) == DOMAIN SearchSpace(s)

\* build_pipeline(random_state, params): params[name] raises KeyError when the
\* name is absent; every hyperparameter is taken from params as it is.
build_pipeline(s, params) ==
    IF ~(HyperNames(s) \subseteq DOMAIN params)
    THEN [err |-> Error("KeyError", HyperNames(s) \ DOMAIN params, "build_pipeline"),
          pipeline |-> NoPipeline]
    ELSE [err |-> NoError,
          pipeline |->
            [estimator |-> IF s \in {RF, ROOT_RF} THEN "RandomForestClassifier"
                           ELSE "LGBMClassifier",
             hyper |-> [name \in HyperNames(s) |-> params[name]],
             fitted |-> FALSE,
             rows |-> {}]]

\* What makes fit raise for certain: no row, a missing label, or a numeric
\* column holding a string (the median imputer refuses it).
FitMustRaise(X, labels) ==
    \/ DOMAIN labels = {}
    \/ \E i \in DOMAIN labels : IsNa(labels[i])
    \/ \E r \in Range(X.rows) :
        /\ r.idx \in DOMAIN labels
        /\ \E c \in Range(NUMERIC_FEATURES) : r.cells[c].k = "str"

\* ------------------------------------------------------------ training: tune
\* The subsample split guarded: when it is refused the search falls back to
\* the whole training set instead of raising.
TuneSample_FallbackToFull ==
    /\ script \in TrainingScripts
    /\ pc = "loaded"
    /\ LET n == Len(train.X.rows)
           labels == LabelsOf(train.y, IdxOf(train.y.rows))
           sample_size == args.tune_sample_size
       IN  IF sample_size > 0 /\ n > sample_size
                /\ ~StratifyFails(labels, sample_size, n - sample_size)
           THEN \E S \in StratifiedSubsets(labels, sample_size) :
                    tune' = [NoTune EXCEPT !.rows = S]
           ELSE tune' = [NoTune EXCEPT !.rows = IdxOf(train.X.rows)]
    /\ pc' = "tuning"
    /\ UNCHANGED <<library, script, err, args, dataFile, testFile, train, external,
                   pipeline, fit, cleaned, fs, warnings>>

\* tune_hyperparameters, lines before objective: the subsample, drawn once.
TuneSample ==
    /\ script \in TrainingScripts
    /\ pc = "loaded"
    /\ LET n == Len(train.X.rows)
           labels == LabelsOf(train.y, IdxOf(train.y.rows))
           sample_size == args.tune_sample_size
       IN  IF sample_size > 0 /\ n > sample_size
           THEN IF StratifyFails(labels, sample_size, n - sample_size)
                THEN Raise(Error("ValueError", {}, "train_test_split")) /\ UNCHANGED tune
                ELSE /\ \E S \in StratifiedSubsets(labels, sample_size) :
                        tune' = [NoTune EXCEPT !.rows = S]
                     /\ pc' = "tuning"
                     /\ UNCHANGED err
           ELSE /\ tune' = [NoTune EXCEPT !.rows = IdxOf(train.X.rows)]
                /\ pc' = "tuning"
                /\ UNCHANGED err
    /\ UNCHANGED <<library, script, args, dataFile, testFile, train, external, pipeline, fit,
                   cleaned, fs, warnings>>

\* The objective splitting the full training set instead of the subsample.
TrialRows_FullSet == IdxOf(train.X.rows)

\* The rows the objective of a trial splits: X and y of the enclosing call.
TrialRows == tune.rows

\* One call of objective(trial) by study.optimize: sample params, build the
\* pipeline, split, fit on the train side, score.  An exception of the
\* objective is not caught by the study.
Trial ==
    /\ script \in TrainingScripts
    /\ pc = "tuning"
    /\ tune.n_done < args.n_trials
    /\ LET rows == TrialRows
           labels == LabelsOf(train.y, rows)
           n == Cardinality(rows)
           n_test == NTestOfFraction(args.test_size, n)
       IN  IF StratifyFails(labels, n - n_test, n_test)
           THEN /\ Raise(Error("ValueError", {}, "train_test_split"))
                /\ tune' = [tune EXCEPT !.inputs = @ \cup {rows}]
                /\ UNCHANGED fit
           ELSE \E S \in StratifiedSubsets(labels, n - n_test), d \in {1, 2},
                   raised \in BOOLEAN, improves \in BOOLEAN :
                /\ FitMustRaise(train.X, LabelsOf(train.y, S)) => raised
                /\ fit' = [by |-> "objective", y |-> LabelVector(LabelsOf(train.y, S))]
                /\ IF raised
                   THEN /\ Raise(Error("ValueError", {}, "fit"))
                        /\ tune' = [tune EXCEPT !.inputs = @ \cup {rows}]
                   ELSE /\ tune' = [tune EXCEPT
                                      !.inputs = @ \cup {rows},
                                      !.n_done = @ + 1,
                                      !.best = IF tune.n_done = 0 \/ improves
                                               THEN TrialParams(script, d)
                                               ELSE @]
                        /\ UNCHANGED <<pc, err>>
    /\ UNCHANGED <<library, script, args, dataFile, testFile, train, external, pipeline,
                   cleaned, fs, warnings>>

\* After study.optimize: study.best_value and study.best_params raise
\* ValueError when the study holds no completed trial.  On return the
\* subsample and the study go out of scope; best_params is what remains.
TuneReturn ==
    /\ script \in TrainingScripts
    /\ pc = "tuning"
    /\ tune.n_done >= args.n_trials
    /\ IF tune.n_done = 0
       THEN Raise(Error("ValueError", {}, "study.best_value")) /\ UNCHANGED tune
       ELSE /\ tune' = [NoTune EXCEPT !.best = tune.best]
            /\ pc' = "tuned"
            /\ UNCHANGED err
    /\ UNCHANGED <<library, script, args, dataFile, testFile, train, external, pipeline,
                   fit, cleaned, fs, warnings>>


\* ------------------------------------------------------------ training: fit
\* pipeline = build_pipeline(args.random_state, best_params)
Build ==
    /\ script \in TrainingScripts
    /\ pc = "tuned"
    /\ LET r == build_pipeline(script, tune.best)
       IN  IF r.err # NoError
           THEN Raise(r.err) /\ UNCHANGED pipeline
           ELSE pipeline' = r.pipeline /\ pc' = "built" /\ UNCHANGED err
    /\ UNCHANGED <<library, script, args, dataFile, testFile, train, external, tune, fit,
                   cleaned, fs, warnings>>

\* The rows main() hands to the fit of the final pipeline: X_train_full.
FinalFitRows == IdxOf(train.X.rows)

\* pipeline.fit(X_train_full, y_train_full)
Fit ==
    /\ script \in TrainingScripts
    /\ pc = "built"
    /\ LET labels == LabelsOf(train.y, FinalFitRows)
       IN  /\ fit' = [by |-> "main", y |-> LabelVector(labels)]
           /\ \E raised \in BOOLEAN :
                /\ FitMustRaise(train.X, labels) => raised
                /\ IF raised
                   THEN Raise(Error("ValueError", {}, "fit")) /\ UNCHANGED pipeline
                   ELSE /\ pipeline' = [pipeline EXCEPT !.fitted = TRUE,
                                                        !.rows = DOMAIN labels]
                        /\ pc' = "fitted"
                        /\ UNCHANGED err
    /\ UNCHANGED <<library, script, args, dataFile, testFile, train, external, tune, cleaned,
                   fs, warnings>>

\* ------------------------------------------------------------ evaluate
LowerOf == [E |-> "e", T |-> "t", X |-> "x", S |-> "s"]
Lower(ch) == IF ch \in DOMAIN LowerOf THEN LowerOf[ch] ELSE ch

RECURSIVE Join(_)
Join(chars) == IF chars = <<>> THEN "" ELSE Head(chars) \o Join(Tail(chars))

\* label.lower().replace(" ", "_"), on the characters of the label.
sanitize_label(label) ==
    Join([i \in 1..Len(label) |->
            IF Lower(label[i]) = " " THEN "_" ELSE Lower(label[i])])

\* label="external test"
ExternalTestLabel == <<"e", "x", "t", "e", "r", "n", "a", "l", " ", "t", "e", "s", "t">>

\* predict and the metrics raise on a test set without two classes, and on a
\* numeric column holding a string.
EvaluateRaises(X, y) ==
    \/ Cardinality({r.v : r \in Range(y.rows)}) < 2
    \/ \E r \in Range(X.rows) : \E c \in Range(NUMERIC_FEATURES) : r.cells[c].k = "str"

\* support taken as the number of distinct labels instead of rows.
Metrics_SupportOfClasses(y_test) ==
    [roc_auc |-> "roc_auc_score", accuracy |-> "accuracy_score",
     support |-> Cardinality({r.v : r \in Range(y_test.rows)})]

\* The metrics dict of evaluate; the two scores are floats the classifier
\* decides, held here by name only.
Metrics(y_test) ==
    [roc_auc |-> "roc_auc_score", accuracy |-> "accuracy_score",
     support |-> Len(y_test.rows)]

\* Whether this script's evaluate takes an output_dir and writes report files.
WritesReports(s) == s # ROOT_RF

\* The files of one evaluate call: the three report files under the key.
ReportFiles(dir, label, metrics) ==
    LET label_key == sanitize_label(label)
    IN  (dir \o "/" \o label_key \o "_classification_report.txt"
            :> [kind |-> "classification_report", support |-> metrics.support])
        @@ (dir \o "/" \o label_key \o "_metrics.json"
            :> [kind |-> "metrics", json |-> metrics])
        @@ (dir \o "/" \o label_key \o "_roc_curve.png"
            :> [kind |-> "roc_curve", support |-> metrics.support,
                title |-> "ROC Curve - " \o Join(label)])

\* The directory made and the files opened before the predictions and the
\* metrics are computed.
evaluate_WriteFirst(files, X_test, y_test, label, output_dir) ==
    [err |-> IF EvaluateRaises(X_test, y_test)
             THEN Error("ValueError", {}, "evaluate") ELSE NoError,
     fs |-> [dirs |-> files.dirs \cup {output_dir},
             files |-> ReportFiles(output_dir, label, Metrics(y_test)) @@ files.files]]

\* The report files opened for appending: what a file of the same name held
\* stays at its head.
evaluate_Appending(files, X_test, y_test, label, output_dir) ==
    IF EvaluateRaises(X_test, y_test)
    THEN [err |-> Error("ValueError", {}, "evaluate"), fs |-> files]
    ELSE [err |-> NoError,
          fs |-> [dirs |-> files.dirs \cup {output_dir},
                  files |-> files.files
                            @@ ReportFiles(output_dir, label, Metrics(y_test))]]

\* evaluate(model, X_test, y_test, label, output_dir) on the file system
\* files: the error it raises, or the file system it leaves.  The
\* predictions and the metrics come first; mkdir and the three files opened
\* with "w" follow.
evaluate(files, X_test, y_test, label, output_dir) ==
    IF EvaluateRaises(X_test, y_test)
    THEN [err |-> Error("ValueError", {}, "evaluate"), fs |-> files]
    ELSE [err |-> NoError,
          fs |-> [dirs |-> files.dirs \cup {output_dir},
                  files |-> ReportFiles(output_dir, label, Metrics(y_test))
                            @@ files.files]]

\* evaluate(pipeline, X_external, y_external, label="external test", ...)
Evaluate ==
    /\ script \in TrainingScripts
    /\ pc = "fitted"
    /\ LET r == evaluate(fs, external.X, external.y, ExternalTestLabel,
                         DEFAULT_REPORT_DIR(script))
       IN  IF r.err # NoError
           THEN Raise(r.err) /\ UNCHANGED fs
           ELSE /\ fs' = IF WritesReports(script) THEN r.fs ELSE fs
                /\ pc' = "evaluated"
                /\ UNCHANGED err
    /\ UNCHANGED <<library, script, args, dataFile, testFile, train, external, tune, pipeline,
                   fit, cleaned, warnings>>

\* Whether main() of this script ends with joblib.dump(pipeline, model_path).
SavesPickle(s) == s \in {RF, TITANIC_LGBM, ROOT_RF}

\* The pickle written right after the fit, before evaluate has run.
Save_BeforeEvaluate ==
    /\ script \in TrainingScripts
    /\ script \in {RF, TITANIC_LGBM, ROOT_RF}
    /\ pc = "fitted"
    /\ fs' = [dirs |-> fs.dirs \cup {ModelDir(script)},
              files |-> (DEFAULT_MODEL_PATH(script)
                            :> [kind |-> "pickle", by |-> script])
                        @@ fs.files]
    /\ pc' = "done"
    /\ UNCHANGED <<library, script, err, args, dataFile, testFile, train, external, tune,
                   pipeline, fit, cleaned, warnings>>

\* args.model_path.parent.mkdir(...); joblib.dump(pipeline, args.model_path)
Save ==
    /\ script \in TrainingScripts
    /\ SavesPickle(script)
    /\ pc = "evaluated"
    /\ fs' = [dirs |-> fs.dirs \cup {ModelDir(script)},
              files |-> (DEFAULT_MODEL_PATH(script)
                            :> [kind |-> "pickle", by |-> script])
                        @@ fs.files]
    /\ pc' = "done"
    /\ UNCHANGED <<library, script, err, args, dataFile, testFile, train, external, tune,
                   pipeline, fit, cleaned, warnings>>


\* ------------------------------------------------------------ model_export
\* What a call of export_pipeline_to_pmml can come to: the re-fit raises
\* (before the directory is made), the writer raises (after it), or the file
\* is written.
PmmlOutcomes == {"fit raised", "writer raised", "written"}

\* What a call of export_pipeline_to_onnx can come to: the conversion raises
\* (before the directory is made) or the file is written.
OnnxOutcomes == {"convert raised", "written"}

\* The pipeline object after pmml_pipeline.fit(X_pmml, y_pmml): the wrapper
\* holds the caller's pipeline object itself, so the re-fit replaces its
\* fitted state; a re-fit that raises may have re-fitted the leading steps.
RefitPipeline(p, rows, outcome, partial) ==
    IF outcome = "fit raised"
    THEN IF partial THEN [p EXCEPT !.rows = rows] ELSE p
    ELSE [p EXCEPT !.fitted = TRUE, !.rows = rows]

\* The fit inside export_pipeline_to_pmml placed after the directory is made.
WritePmml_MkdirFirst(files, outcome, dir, path, rows) ==
    [dirs |-> files.dirs \cup {dir},
     files |-> IF outcome = "written"
               THEN (path :> [kind |-> "pmml", rows |-> rows]) @@ files.files
               ELSE files.files]

\* The file system after export_pipeline_to_pmml, lines 54-55.
WritePmml(files, outcome, dir, path, rows) ==
    IF outcome = "fit raised" THEN files
    ELSE [dirs |-> files.dirs \cup {dir},
          files |-> IF outcome = "written"
                    THEN (path :> [kind |-> "pmml", rows |-> rows]) @@ files.files
                    ELSE files.files]

\* The PMML export without the try/except: a failure ends the run.
ExportPmml_Uncaught ==
    /\ script = LGBM
    /\ pc = "evaluated"
    /\ IF args.skip_pmml
       THEN pc' = "pmml_step_done" /\ UNCHANGED <<pipeline, fit, cleaned, fs, err>>
       ELSE LET c == CleanForPmml(train.X, train.y, FEATURES, NUMERIC_FEATURES)
                labels == LabelsOf(c.y, IdxOf(c.y.rows))
            IN  \E outcome \in PmmlOutcomes, partial \in BOOLEAN :
                /\ FitMustRaise(c.X, labels) => outcome = "fit raised"
                /\ cleaned' = c
                /\ fit' = [by |-> "export_pipeline_to_pmml", y |-> LabelVector(labels)]
                /\ pipeline' = RefitPipeline(pipeline, DOMAIN labels, outcome, partial)
                /\ fs' = WritePmml(fs, outcome, ExportDir, DEFAULT_PMML_PATH, DOMAIN labels)
                /\ IF outcome = "written"
                   THEN pc' = "pmml_step_done" /\ UNCHANGED err
                   ELSE Raise(Error("RuntimeError", {}, "export_pipeline_to_pmml"))
    /\ UNCHANGED <<library, script, args, dataFile, testFile, train, external, tune, warnings>>

\* main() of train_lightgbm.py, lines 307-319: the PMML export, skipped under
\* --skip-pmml, any exception of it caught and printed as a warning.
ExportPmml ==
    /\ script = LGBM
    /\ pc = "evaluated"
    /\ IF args.skip_pmml
       THEN UNCHANGED <<pipeline, fit, cleaned, fs, warnings>>
       ELSE LET c == CleanForPmml(train.X, train.y, FEATURES, NUMERIC_FEATURES)
                labels == LabelsOf(c.y, IdxOf(c.y.rows))
            IN  \E outcome \in PmmlOutcomes, partial \in BOOLEAN :
                /\ FitMustRaise(c.X, labels) => outcome = "fit raised"
                /\ cleaned' = c
                /\ fit' = [by |-> "export_pipeline_to_pmml", y |-> LabelVector(labels)]
                /\ pipeline' = RefitPipeline(pipeline, DOMAIN labels, outcome, partial)
                /\ fs' = WritePmml(fs, outcome, ExportDir, DEFAULT_PMML_PATH, DOMAIN labels)
                /\ warnings' = IF outcome = "written" THEN warnings
                               ELSE warnings \cup {"Failed to export LightGBM PMML"}
    /\ pc' = "pmml_step_done"
    /\ UNCHANGED <<library, script, err, args, dataFile, testFile, train, external, tune>>

\* The ONNX export placed inside the PMML branch: --skip-pmml skips both.
ExportOnnx_InsidePmmlBranch ==
    /\ script = LGBM
    /\ pc = "pmml_step_done"
    /\ IF args.skip_onnx \/ args.skip_pmml
       THEN UNCHANGED <<fs, warnings>>
       ELSE \E outcome \in OnnxOutcomes :
                IF outcome = "written"
                THEN /\ fs' = [dirs |-> fs.dirs \cup {ExportDir},
                               files |-> (DEFAULT_ONNX_PATH
                                            :> [kind |-> "onnx", rows |-> pipeline.rows])
                                         @@ fs.files]
                     /\ UNCHANGED warnings
                ELSE /\ warnings' = warnings \cup {"Failed to export LightGBM ONNX"}
                     /\ UNCHANGED fs
    /\ pc' = "done"
    /\ UNCHANGED <<library, script, err, args, dataFile, testFile, train, external, tune,
                   pipeline, fit, cleaned>>

\* main() of train_lightgbm.py, lines 321-331: the ONNX export, skipped under
\* --skip-onnx, any exception of it caught and printed as a warning.
ExportOnnx ==
    /\ script = LGBM
    /\ pc = "pmml_step_done"
    /\ IF args.skip_onnx
       THEN UNCHANGED <<fs, warnings>>
       ELSE \E outcome \in OnnxOutcomes :
                IF outcome = "written"
                THEN /\ fs' = [dirs |-> fs.dirs \cup {ExportDir},
                               files |-> (DEFAULT_ONNX_PATH
                                            :> [kind |-> "onnx", rows |-> pipeline.rows])
                                         @@ fs.files]
                     /\ UNCHANGED warnings
                ELSE /\ warnings' = warnings \cup {"Failed to export LightGBM ONNX"}
                     /\ UNCHANGED fs
    /\ pc' = "done"
    /\ UNCHANGED <<library, script, err, args, dataFile, testFile, train, external, tune,
                   pipeline, fit, cleaned>>

\* ------------------------------------------------------------ export_to_pmml
\* The existence check made only after the data was read and cleaned.
CheckModel_AfterRead ==
    /\ script \in ExportScripts
    /\ pc = "start"
    /\ LET c == CleanInScript(dataFile)
       IN  cleaned' = IF c.err = NoError THEN [X |-> c.X, y |-> c.y] ELSE cleaned
    /\ IF DEFAULT_MODEL_PATH(RF) \notin DOMAIN fs.files
       THEN Raise(Error("FileNotFoundError", {}, "main"))
       ELSE pc' = "model_found" /\ UNCHANGED err
    /\ UNCHANGED <<library, script, args, dataFile, testFile, train, external, tune,
                   pipeline, fit, fs, warnings>>

\* if not model_path.exists(): raise FileNotFoundError
CheckModel ==
    /\ script \in ExportScripts
    /\ pc = "start"
    /\ IF DEFAULT_MODEL_PATH(RF) \notin DOMAIN fs.files
       THEN Raise(Error("FileNotFoundError", {}, "main"))
       ELSE pc' = "model_found" /\ UNCHANGED err
    /\ UNCHANGED <<library, script, args, dataFile, testFile, train, external, tune, pipeline,
                   fit, cleaned, fs, warnings>>

\* Lines from pd.read_csv to y = y.loc[X.index].
ReadAndClean ==
    /\ script \in ExportScripts
    /\ pc = "model_found"
    /\ LET c == CleanInScript(dataFile)
       IN  IF c.err # NoError
           THEN Raise(c.err) /\ UNCHANGED cleaned
           ELSE /\ cleaned' = [X |-> c.X, y |-> c.y]
                /\ pc' = "cleaned"
                /\ UNCHANGED err
    /\ UNCHANGED <<library, script, args, dataFile, testFile, train, external, tune, pipeline,
                   fit, fs, warnings>>

\* pipeline = joblib.load(model_path): the pipeline an earlier run pickled.
LoadModel ==
    /\ script \in ExportScripts
    /\ pc = "cleaned"
    /\ pipeline' = [estimator |-> "RandomForestClassifier",
                    hyper |-> TrialParams(RF, 1),
                    fitted |-> TRUE,
                    rows |-> {}]
    /\ pc' = "model_loaded"
    /\ UNCHANGED <<library, script, err, args, dataFile, testFile, train, external, tune, fit,
                   cleaned, fs, warnings>>

\* The label vector the script hands to pmml_pipeline.fit.
RefitLabels == LabelsOf(cleaned.y, IdxOf(cleaned.y.rows))

\* pmml_pipeline.fit(X, y): an exception of it is not caught.
Refit ==
    /\ script \in ExportScripts
    /\ pc = "model_loaded"
    /\ LET labels == RefitLabels
       IN  /\ fit' = [by |-> "export_to_pmml", y |-> LabelVector(labels)]
           /\ \E raised \in BOOLEAN :
                /\ FitMustRaise(cleaned.X, labels) => raised
                /\ IF raised
                   THEN Raise(Error("ValueError", {}, "fit")) /\ UNCHANGED pipeline
                   ELSE /\ pipeline' = [pipeline EXCEPT !.rows = DOMAIN labels]
                        /\ pc' = "refitted"
                        /\ UNCHANGED err
    /\ UNCHANGED <<library, script, args, dataFile, testFile, train, external, tune, cleaned,
                   fs, warnings>>

\* output_path.parent.mkdir(...); sklearn2pmml(...): an exception of the
\* writer is not caught.
WriteScriptPmml ==
    /\ script \in ExportScripts
    /\ pc = "refitted"
    /\ \E outcome \in {"writer raised", "written"} :
        /\ fs' = WritePmml(fs, outcome, ExportDir, ExportOutputPath, pipeline.rows)
        /\ IF outcome = "written"
           THEN pc' = "done" /\ UNCHANGED err
           ELSE Raise(Error("RuntimeError", {}, "sklearn2pmml"))
    /\ UNCHANGED <<library, script, args, dataFile, testFile, train, external, tune, pipeline,
                   fit, cleaned, warnings>>

\* ------------------------------------------------------------ train.py (Iris)
\* The labels of load_iris(): three classes, none missing (two rows of each
\* stand for the fifty).
IrisLabels == [i \in 0..5 |-> Num(IF i < 2 THEN "0" ELSE IF i < 4 THEN "1" ELSE "3")]

\* train_pipeline(): split 80/20 stratified, fit on the train side.
TrainIris ==
    /\ script = IRIS
    /\ pc = "start"
    /\ \E S \in StratifiedSubsets(IrisLabels, 3) :
        /\ fit' = [by |-> "train_pipeline", y |-> LabelVector([i \in S |-> IrisLabels[i]])]
        /\ pipeline' = [estimator |-> "RandomForestClassifier",
                        hyper |-> [n_estimators |-> "100"],
                        fitted |-> TRUE,
                        rows |-> S]
    /\ pc' = "trained"
    /\ UNCHANGED <<library, script, err, args, dataFile, testFile, train, external, tune,
                   cleaned, fs, warnings>>

\* export_pmml(pipeline, pmml_output): an exception of the writer is not caught.
ExportPmmlIris ==
    /\ script = IRIS
    /\ pc = "trained"
    /\ \E outcome \in {"writer raised", "written"} :
        /\ fs' = WritePmml(fs, outcome, ExportDir, "model/model.pmml", pipeline.rows)
        /\ IF outcome = "written"
           THEN pc' = "pmml_exported" /\ UNCHANGED err
           ELSE Raise(Error("RuntimeError", {}, "sklearn2pmml"))
    /\ UNCHANGED <<library, script, args, dataFile, testFile, train, external, tune, pipeline,
                   fit, cleaned, warnings>>

\* export_onnx(pipeline, feature_names, onnx_output): an exception of the
\* conversion is not caught.
ExportOnnxIris ==
    /\ script = IRIS
    /\ pc = "pmml_exported"
    /\ \E outcome \in OnnxOutcomes :
        IF outcome = "written"
        THEN /\ fs' = [fs EXCEPT !.files =
                        ("model/model.onnx" :> [kind |-> "onnx", rows |-> pipeline.rows])
                        @@ @]
             /\ pc' = "onnx_exported"
             /\ UNCHANGED err
        ELSE Raise(Error("RuntimeError", {}, "convert_sklearn")) /\ UNCHANGED fs
    /\ UNCHANGED <<library, script, args, dataFile, testFile, train, external, tune, pipeline,
                   fit, cleaned, warnings>>

\* standalone_path.write_bytes(pmml_output.read_bytes())
CopyStandalone ==
    /\ script = IRIS
    /\ pc = "onnx_exported"
    /\ fs' = [dirs |-> fs.dirs \cup {"pmml-standalone/model"},
              files |-> ("pmml-standalone/model/model.pmml" :> fs.files["model/model.pmml"])
                        @@ fs.files]
    /\ pc' = "done"
    /\ UNCHANGED <<library, script, err, args, dataFile, testFile, train, external, tune,
                   pipeline, fit, cleaned, warnings>>

\* ------------------------------------------------------------ specification
Next ==
    \/ ParseArgs
    \/ LoadTrain
    \/ LoadTest
    \/ TuneSample
    \/ Trial
    \/ TuneReturn
    \/ Build
    \/ Fit
    \/ Evaluate
    \/ Save
    \/ ExportPmml
    \/ ExportOnnx
    \/ CheckModel
    \/ ReadAndClean
    \/ LoadModel
    \/ Refit
    \/ WriteScriptPmml
    \/ TrainIris
    \/ ExportPmmlIris
    \/ ExportOnnxIris
    \/ CopyStandalone

Spec == Init /\ [][Next]_vars

\* ------------------------------------------------------------ evaluate, called repeatedly
\* Longest sequence of evaluate calls explored.
MaxCalls == 3

\* Labels a caller may pass: two that differ in case only, and a third.
CapitalisedLabel == <<"E", "x", "t", "e", "r", "n", "a", "l", " ", "T", "e", "s", "t">>
ValidLabel == <<"v", "a", "l", "i", "d">>
TrainLabel == <<"t", "r", "a", "i", "n">>
EvalLabels == {ExternalTestLabel, CapitalisedLabel, ValidLabel}

\* The held-out files a caller may load: six rows, seven rows, and one whose
\* rows with a target are all of one class.
EvalTestFiles ==
    {Csv(RequiredColumns, BaseRows),
     Csv(RequiredColumns, <<RowAgeNa>> \o BaseRows),
     Csv(RequiredColumns, <<RowOk1, RowNoTarget, RowOk1>>)}

\* The scripts whose evaluate takes an output_dir.
EvaluateScripts == {s \in TrainingScripts : WritesReports(s)}

\* The report directory before the first call: absent, or left by an
\* earlier run that evaluated under the labels "external test" and "train".
PriorReports(dir) ==
    ReportFiles(dir, ExternalTestLabel,
                [roc_auc |-> "earlier run", accuracy |-> "earlier run", support |-> 2])
    @@ ReportFiles(dir, TrainLabel,
                   [roc_auc |-> "earlier run", accuracy |-> "earlier run", support |-> 5])

EvaluateInitialFs(s) ==
    {EmptyFs,
     [dirs |-> {DEFAULT_REPORT_DIR(s)}, files |-> PriorReports(DEFAULT_REPORT_DIR(s))]}

\* A fitted pipeline of the script, as main() hands it to evaluate.
FittedPipeline(s) ==
    [build_pipeline(s, TrialParams(s, 1)).pipeline EXCEPT !.fitted = TRUE]

InitEvaluate ==
    /\ script \in EvaluateScripts
    /\ pc = "caller"
    /\ err = NoError
    /\ args = NoArgs
    /\ dataFile = NoCsv
    /\ testFile = NoCsv
    /\ train = NoData
    /\ external = NoData
    /\ tune = NoTune
    /\ pipeline = FittedPipeline(script)
    /\ fit = NoFit
    /\ cleaned = NoData
    /\ fs \in EvaluateInitialFs(script)
    /\ warnings = {}
    /\ LibraryIdle

\* One call evaluate(pipeline, X_test, y_test, label, output_dir) by a caller
\* that goes on after an exception; calls keeps what the call was given, the
\* file system it found and whether it raised.
EvaluateCall ==
    /\ script \in EvaluateScripts
    /\ pc = "caller"
    /\ Len(calls) < MaxCalls
    /\ \E label \in EvalLabels, f \in EvalTestFiles :
        LET d == load_dataset(script, f)
            r == evaluate(fs, d.X, d.y, label, DEFAULT_REPORT_DIR(script))
        IN  /\ testFile' = f
            /\ external' = [X |-> d.X, y |-> d.y]
            /\ fs' = r.fs
            /\ err' = r.err
            /\ calls' = Append(calls, [label |-> label, y_test |-> d.y, before |-> fs,
                                       raised |-> r.err # NoError])
    /\ UNCHANGED <<script, pc, args, dataFile, train, tune, pipeline, fit, cleaned,
                   warnings, registry, onnx, procs, heap>>

NextEvaluate == EvaluateCall

SpecEvaluate == InitEvaluate /\ [][NextEvaluate]_vars

\* ------------------------------------------------------------ export_pipeline_to_onnx
\* Most columns of a data frame handed to the ONNX export.
MaxColumns == 2
\* Longest sequence of export_pipeline_to_onnx calls in one process.
MaxOnnxCalls == 2

None == [k |-> "None"]
Integer(n) == [k |-> "int", v |-> n]
Dict(d) == [k |-> "dict", v |-> d]

\* Class names, by character.
LGBMClassifierName == <<"L", "G", "B", "M", "C", "l", "a", "s", "s", "i", "f", "i", "e", "r">>
LGBMRegressorName == <<"L", "G", "B", "M", "R", "e", "g", "r", "e", "s", "s", "o", "r">>
RandomForestClassifierName == <<"R", "a", "n", "d", "o", "m", "F", "o", "r", "e", "s", "t">>
ColumnTransformerName == <<"C", "o", "l", "u", "m", "n", "T", "r", "a", "n", "s">>

\* class_name.startswith("LGBM")
StartsWithLGBM(class_name) ==
    Len(class_name) >= 4 /\ SubSeq(class_name, 1, 4) = <<"L", "G", "B", "M">>

\* The objects passed as pipeline: the class names of the steps in order, or
\* an object without a steps attribute (a bare estimator).
OnnxPipelines ==
    {[has_steps |-> TRUE, steps |-> <<ColumnTransformerName, LGBMClassifierName>>],
     [has_steps |-> TRUE, steps |-> <<ColumnTransformerName, LGBMRegressorName>>],
     [has_steps |-> TRUE, steps |-> <<LGBMClassifierName, RandomForestClassifierName>>],
     [has_steps |-> TRUE, steps |-> <<>>],
     [has_steps |-> FALSE, steps |-> <<LGBMClassifierName>>]}

\* pipeline.steps[-1][1] when hasattr(pipeline, "steps") and pipeline.steps
HasLastStep(p) == p.has_steps /\ p.steps # <<>>
LastStepClass(p) == p.steps[Len(p.steps)]

\* pandas.api.types
is_float_dtype(dtype) == dtype \in {"float32", "float64"}
is_integer_dtype(dtype) == dtype \in {"int32", "int64"}

\* The dtype consulted before the explicit overrides.
TensorType_DtypeFirst(column, dtype, float_feature_names, string_feature_names) ==
    IF is_float_dtype(dtype) THEN "FloatTensorType"
    ELSE IF is_integer_dtype(dtype) THEN "Int64TensorType"
    ELSE IF column \in float_feature_names /\ column \notin string_feature_names
    THEN "FloatTensorType"
    ELSE "StringTensorType"

\* The if/elif chain of the loop over X.columns.
TensorType(column, dtype, float_feature_names, string_feature_names) ==
    IF column \in string_feature_names THEN "StringTensorType"
    ELSE IF column \in float_feature_names \/ is_float_dtype(dtype) THEN "FloatTensorType"
    ELSE IF is_integer_dtype(dtype) THEN "Int64TensorType"
    ELSE "StringTensorType"

\* initial_types: one (column, tensor) pair appended per column of X.
InitialTypes(X, float_feature_names, string_feature_names) ==
    [i \in 1..Len(X.cols) |->
        [name |-> X.cols[i],
         type |-> TensorType(X.cols[i], X.dtype[X.cols[i]],
                             float_feature_names, string_feature_names),
         shape |-> <<None, 1>>]]

\* _build_onnx_options(pipeline)
_build_onnx_options(p) ==
    IF ~HasLastStep(p) THEN None
    ELSE IF StartsWithLGBM(LastStepClass(p))
    THEN Dict([zipmap |-> FALSE, nocl |-> FALSE])
    ELSE None

\* The ai.onnx.ml version set whenever the estimator requires it.
_normalise_opset_Overwriting(target_opset, p) ==
    LET opset == IF target_opset = None THEN ("" :> 17)
                 ELSE IF target_opset.k = "int" THEN ("" :> target_opset.v)
                 ELSE target_opset.v
        requires_ml == HasLastStep(p) /\ StartsWithLGBM(LastStepClass(p))
    IN  [opset |-> IF requires_ml THEN ("ai.onnx.ml" :> 3) @@ opset ELSE opset,
         target_opset |-> target_opset]

\* _normalise_opset(target_opset, pipeline): the dict returned, and the
\* caller's object after the call (opset = dict(target_opset) is a copy).
_normalise_opset(target_opset, p) ==
    LET opset == IF target_opset = None THEN ("" :> 17)
                 ELSE IF target_opset.k = "int" THEN ("" :> target_opset.v)
                 ELSE target_opset.v
        requires_ml == HasLastStep(p) /\ StartsWithLGBM(LastStepClass(p))
    IN  [opset |-> IF requires_ml /\ "ai.onnx.ml" \notin DOMAIN opset
                   THEN opset @@ ("ai.onnx.ml" :> 3)
                   ELSE opset,
         target_opset |-> target_opset]

\* The types _ensure_lightgbm_registration looks up, in its order.
LightGbmTypes == <<"LGBMClassifier", "LGBMRegressor">>

\* Every call runs the registration pass, and the pass registers without
\* asking whether a shape calculator is there.
_ensure_lightgbm_registration_Always(reg, importable) ==
    IF ~importable THEN [registry |-> reg, lookups |-> <<>>]
    ELSE [registry |-> [done |-> TRUE,
                        shape_calculators |-> reg.shape_calculators \cup Range(LightGbmTypes),
                        registered |-> reg.registered \o LightGbmTypes],
          lookups |-> <<>>]

\* _ensure_lightgbm_registration(): the registry and the flag it leaves, and
\* the get_shape_calculator lookups it made.
_ensure_lightgbm_registration(reg, importable) ==
    IF reg.done \/ ~importable THEN [registry |-> reg, lookups |-> <<>>]
    ELSE LET Absent(t) == t \notin reg.shape_calculators
         IN  [registry |-> [done |-> TRUE,
                            shape_calculators |->
                                reg.shape_calculators \cup Range(LightGbmTypes),
                            registered |->
                                reg.registered \o SelectSeq(LightGbmTypes, Absent)],
              lookups |-> LightGbmTypes]


\* The data frames explored: up to MaxColumns distinct columns, any dtype.
OnnxColumns == {"Age", "Sex", "Pclass"}
OnnxDtypes == {"float64", "int64", "object"}
OnnxFrames ==
    {[cols |-> cols, dtype |-> dt] :
        cols \in {c \in SeqsUpTo(OnnxColumns, MaxColumns) :
                    \A i, j \in 1..Len(c) : i # j => c[i] # c[j]},
        dt \in [OnnxColumns -> OnnxDtypes]}

\* The frame and the overrides main() of train_lightgbm.py passes, on the
\* columns explored.
TitanicFrame ==
    [cols |-> <<"Pclass", "Age">>,
     dtype |-> [c \in OnnxColumns |-> IF c = "Age" THEN "float64" ELSE "object"]]

\* The caller holds the arguments of main() of train_lightgbm.py.
TitanicArguments(a) ==
    a.X = TitanicFrame /\ a.string_feature_names = {"Pclass", "Sex"}

\* float_feature_names / string_feature_names: None or any set of names.
OverrideSets == SUBSET {"Age", "Sex"}

\* target_opset: None, an int, or a dict with or without an "ai.onnx.ml" entry.
TargetOpsets ==
    {None, Integer(15), Dict("" :> 15), Dict("ai.onnx.ml" :> 2),
     Dict(("" :> 15) @@ ("ai.onnx.ml" :> 2)), Dict("" :> 17)}

\* The registry a process starts with: other packages may have registered a
\* shape calculator for either LightGBM type already.
InitialRegistries ==
    {[NoRegistry EXCEPT !.shape_calculators = S] : S \in SUBSET Range(LightGbmTypes)}

\* The arguments explored: every frame and override with the default opset
\* in a fresh registry; every opset and every registry with the frame of
\* train_lightgbm.py.
OnnxArguments ==
    {[X |-> X, float_feature_names |-> f, string_feature_names |-> g,
      target_opset |-> None, registry |-> NoRegistry] :
        X \in {F \in OnnxFrames : \A c \in OnnxColumns \ Range(F.cols) :
                                     F.dtype[c] = "object"},
        f \in OverrideSets, g \in OverrideSets}
    \cup {[X |-> TitanicFrame, float_feature_names |-> {"Age"},
           string_feature_names |-> {"Pclass", "Sex"},
           target_opset |-> t, registry |-> r] :
            t \in TargetOpsets, r \in InitialRegistries}

\* The directory made before the conversion is attempted.
WriteOnnx_MkdirFirst(files, outcome, dir, path, content) ==
    [dirs |-> files.dirs \cup {dir},
     files |-> IF outcome = "written" THEN (path :> content) @@ files.files
               ELSE files.files]

\* The file system after export_pipeline_to_onnx, lines 93-95: reached only
\* when nothing before them raised.
WriteOnnx(files, outcome, dir, path, content) ==
    IF outcome = "written"
    THEN [dirs |-> files.dirs \cup {dir}, files |-> (path :> content) @@ files.files]
    ELSE files

\* The arguments a caller holds, before the first call.
OnnxCaller(a) ==
    [called |-> FALSE, X |-> a.X, float_feature_names |-> a.float_feature_names,
     string_feature_names |-> a.string_feature_names, target_opset |-> a.target_opset,
     initial_types |-> <<>>, options |-> None, opset |-> <<>>]

InitOnnx ==
    /\ script = LGBM
    /\ pc = "caller"
    /\ err = NoError
    /\ args = NoArgs
    /\ dataFile = NoCsv
    /\ testFile = NoCsv
    /\ train = NoData
    /\ external = NoData
    /\ tune = NoTune
    /\ pipeline = NoPipeline
    /\ fit = NoFit
    /\ cleaned = NoData
    /\ warnings = {}
    /\ calls = <<>>
    /\ procs = <<>>
    /\ heap = <<>>
    /\ \E a \in OnnxArguments :
        /\ onnx = OnnxCaller(a)
        /\ registry = a.registry
        /\ fs \in (IF TitanicArguments(a) THEN {EmptyFs, StaleExports} ELSE {EmptyFs})

\* One call export_pipeline_to_onnx(pipeline, X, output_path=...,
\* target_opset=..., float_feature_names=..., string_feature_names=...).
\* Whether lightgbm and onnxmltools import, and whether convert_sklearn
\* raises, is the environment's choice.  Sequences of calls are explored
\* with the arguments of train_lightgbm.py, a single call with every other.
ExportOnnxCall ==
    /\ pc = "caller"
    /\ Len(calls) < (IF TitanicArguments(onnx) THEN MaxOnnxCalls ELSE 1)
    /\ \E p \in OnnxPipelines, importable \in BOOLEAN, outcome \in OnnxOutcomes :
        LET e == _ensure_lightgbm_registration(registry, importable)
            initial_types == InitialTypes(onnx.X, onnx.float_feature_names,
                                          onnx.string_feature_names)
            options == _build_onnx_options(p)
            n == _normalise_opset(onnx.target_opset, p)
        IN  /\ registry' = e.registry
            /\ onnx' = [onnx EXCEPT !.called = TRUE,
                                    !.initial_types = initial_types,
                                    !.options = options,
                                    !.opset = n.opset,
                                    !.target_opset = n.target_opset]
            /\ calls' = Append(calls,
                               [pipeline |-> p, importable |-> importable,
                                before |-> registry, lookups |-> e.lookups,
                                target_opset |-> onnx.target_opset,
                                converted |-> TRUE, raised |-> outcome # "written"])
            /\ fs' = WriteOnnx(fs, outcome, ExportDir, DEFAULT_ONNX_PATH,
                               [kind |-> "onnx", initial_types |-> initial_types,
                                opset |-> n.opset, options |-> options])
            /\ err' = IF outcome = "written" THEN NoError
                       ELSE Error("RuntimeError", {}, "convert_sklearn")
    /\ UNCHANGED <<script, pc, args, dataFile, testFile, train, external, tune,
                   pipeline, fit, cleaned, warnings, procs, heap>>

\* One call export_pipeline_to_pmml(pipeline, X, y, ...) by the same caller,
\* before its ONNX exports, on the frames load_dataset returns; explored with
\* the default opset in a fresh registry.  The caller goes on after an
\* exception.
ExportPmmlCall ==
    /\ pc = "caller"
    /\ fit = NoFit
    /\ ~onnx.called
    /\ TitanicArguments(onnx) /\ onnx.target_opset = None /\ registry = NoRegistry
    /\ \E f \in ArgFiles, outcome \in PmmlOutcomes, partial \in BOOLEAN :
        LET d == load_dataset(LGBM, f)
            c == CleanForPmml(d.X, d.y, FEATURES, NUMERIC_FEATURES)
            labels == LabelsOf(c.y, IdxOf(c.y.rows))
        IN  /\ FitMustRaise(c.X, labels) => outcome = "fit raised"
            /\ cleaned' = c
            /\ fit' = [by |-> "export_pipeline_to_pmml", y |-> LabelVector(labels)]
            /\ pipeline' = RefitPipeline(pipeline, DOMAIN labels, outcome, partial)
            /\ fs' = WritePmml(fs, outcome, ExportDir, DEFAULT_PMML_PATH, DOMAIN labels)
            /\ err' = IF outcome = "fit raised"
                      THEN Error("ValueError", {}, "pmml_pipeline.fit")
                      ELSE IF outcome = "writer raised"
                      THEN Error("RuntimeError", {}, "sklearn2pmml")
                      ELSE NoError
    /\ UNCHANGED <<script, pc, args, dataFile, testFile, train, external, tune,
                   warnings, calls, registry, onnx, procs, heap>>

NextOnnx == ExportOnnxCall \/ ExportPmmlCall

SpecOnnx == InitOnnx /\ [][NextOnnx]_vars


\* ------------------------------------------------------------ two invocations
\* Two invocations of the training entry points with the default command
\* line, started in one checkout: each is a process of its own (its frames,
\* its pipeline and its study are private), the file system is the one thing
\* both reach.  A process takes one step of its main() at a time.

\* The pairs of entry points run together.
ConcurrentPairs == {<<s, s>> : s \in TrainingScripts} \cup {<<LGBM, TITANIC_LGBM>>}

\* What the machine lets the two exports of train_lightgbm.py come to; it is
\* the same machine for both invocations.
ExportEnvironments == [pmml : {"writer raised", "written"}, onnx : OnnxOutcomes]

\* A file just opened with mode "w": it exists and is empty.
Truncated == [kind |-> "truncated", model |-> {}]

\* A file whose content was computed from the predictions of the pipeline
\* built and fitted by script s.
ScoredBy(content, s) == ("model" :> {s}) @@ content

\* The three paths evaluate writes to, in the order it opens them.
ReportPaths(dir, label) ==
    LET label_key == sanitize_label(label)
    IN  <<dir \o "/" \o label_key \o "_classification_report.txt",
          dir \o "/" \o label_key \o "_metrics.json",
          dir \o "/" \o label_key \o "_roc_curve.png">>

\* The report files an invocation of s computes from the default test data.
OwnReports(s, csv) ==
    LET files == ReportFiles(DEFAULT_REPORT_DIR(s), ExternalTestLabel,
                             Metrics(load_dataset(s, csv).y))
    IN  [path \in DOMAIN files |-> ScoredBy(files[path], s)]

\* What a buffered write that follows open("w") may leave: the writer's
\* bytes, or, when another process wrote to the file since it was opened, the
\* writer's bytes followed by the tail of the longer content below them.
WriteOver(current, own) ==
    IF current = Truncated \/ current = own THEN {own}
    ELSE {own, [own EXCEPT !["model"] = @ \cup current.model]}

\* Every variable of main() is private to a process; the shared state is fs.
ProcessFrame ==
    UNCHANGED <<script, pc, err, args, dataFile, testFile, train, external, tune,
                pipeline, fit, cleaned, warnings, calls, registry, onnx, heap>>

InitConcurrent ==
    /\ script \in TrainingScripts
    /\ pc = "start"
    /\ err = NoError
    /\ args = DefaultArgs
    /\ dataFile \in ArgFiles
    /\ testFile = NoCsv
    /\ train = NoData
    /\ external = NoData
    /\ tune = NoTune
    /\ pipeline = NoPipeline
    /\ fit = NoFit
    /\ cleaned = NoData
    /\ fs = EmptyFs
    /\ warnings = {}
    /\ calls = <<>>
    /\ registry = NoRegistry
    /\ onnx = NoOnnx
    /\ heap = <<>>
    /\ \E pair \in ConcurrentPairs, env \in ExportEnvironments :
        /\ script = pair[1]
        /\ procs = [p \in 1..2 |->
                      [script |-> pair[p], pc |-> "start", file |-> 0, env |-> env]]

\* load_dataset twice, tune_hyperparameters, build_pipeline, pipeline.fit, and
\* the predictions and metrics at the head of evaluate: nothing is written.
ProcTrain(p) ==
    /\ procs[p].pc = "start"
    /\ procs' = [procs EXCEPT ![p].pc =
                    IF WritesReports(procs[p].script) THEN "scored" ELSE "evaluated"]
    /\ UNCHANGED fs
    /\ ProcessFrame

\* evaluate: output_dir.mkdir(parents=True, exist_ok=True)
ProcMkdir(p) ==
    /\ procs[p].pc = "scored"
    /\ fs' = [fs EXCEPT !.dirs = @ \cup {DEFAULT_REPORT_DIR(procs[p].script)}]
    /\ procs' = [procs EXCEPT ![p].pc = "closed", ![p].file = 1]
    /\ ProcessFrame

\* evaluate: report_path.open("w"), metrics_path.open("w"), and the open
\* inside plt.savefig: the file is created or emptied.
ProcOpen(p) ==
    /\ procs[p].pc = "closed"
    /\ LET path == ReportPaths(DEFAULT_REPORT_DIR(procs[p].script),
                               ExternalTestLabel)[procs[p].file]
       IN  fs' = [fs EXCEPT !.files = (path :> Truncated) @@ @]
    /\ procs' = [procs EXCEPT ![p].pc = "open"]
    /\ ProcessFrame

\* evaluate: the content reaches the file when it is closed.
ProcWrite(p) ==
    /\ procs[p].pc = "open"
    /\ LET path == ReportPaths(DEFAULT_REPORT_DIR(procs[p].script),
                               ExternalTestLabel)[procs[p].file]
           own == OwnReports(procs[p].script, dataFile)[path]
       IN  \E content \in WriteOver(fs.files[path], own) :
                fs' = [fs EXCEPT !.files = (path :> content) @@ @]
    /\ procs' = IF procs[p].file < 3
                THEN [procs EXCEPT ![p].pc = "closed", ![p].file = @ + 1]
                ELSE [procs EXCEPT ![p].pc = "evaluated"]
    /\ ProcessFrame

\* args.model_path.parent.mkdir(...); joblib.dump(pipeline, args.model_path)
ProcSave(p) ==
    /\ procs[p].pc = "evaluated"
    /\ SavesPickle(procs[p].script)
    /\ fs' = [dirs |-> fs.dirs \cup {ModelDir(procs[p].script)},
              files |-> (DEFAULT_MODEL_PATH(procs[p].script)
                            :> [kind |-> "pickle", model |-> {procs[p].script}])
                        @@ fs.files]
    /\ procs' = [procs EXCEPT ![p].pc = "done"]
    /\ ProcessFrame

\* main() of train_lightgbm.py: the PMML export inside its try/except.
ProcExportPmml(p) ==
    /\ procs[p].pc = "evaluated"
    /\ procs[p].script = LGBM
    /\ fs' = [dirs |-> fs.dirs \cup {ExportDir},
              files |-> IF procs[p].env.pmml = "written"
                        THEN (DEFAULT_PMML_PATH :> [kind |-> "pmml", model |-> {LGBM}])
                             @@ fs.files
                        ELSE fs.files]
    /\ procs' = [procs EXCEPT ![p].pc = "pmml_step_done"]
    /\ ProcessFrame

\* main() of train_lightgbm.py: the ONNX export inside its try/except.
ProcExportOnnx(p) ==
    /\ procs[p].pc = "pmml_step_done"
    /\ fs' = IF procs[p].env.onnx = "written"
             THEN [dirs |-> fs.dirs \cup {ExportDir},
                   files |-> (DEFAULT_ONNX_PATH :> [kind |-> "onnx", model |-> {LGBM}])
                             @@ fs.files]
             ELSE fs
    /\ procs' = [procs EXCEPT ![p].pc = "done"]
    /\ ProcessFrame

NextConcurrent ==
    \E p \in 1..2 :
        \/ ProcTrain(p)
        \/ ProcMkdir(p)
        \/ ProcOpen(p)
        \/ ProcWrite(p)
        \/ ProcSave(p)
        \/ ProcExportPmml(p)
        \/ ProcExportOnnx(p)

SpecConcurrent == InitConcurrent /\ [][NextConcurrent]_vars


\* ------------------------------------------------------------ build_pipeline, its objects
\* build_pipeline called repeatedly by one caller with one params dict.  The
\* heap holds the objects by identity: an object is its position in heap.
MaxBuildCalls == 3

\* --random-state values a caller passes.
RandomStates == {"0", "42"}

\* A Python object: its class, its keyword arguments or items, the objects it
\* refers to, and whether fit has been called on it.
Object(class, kw, refs) == [class |-> class, kw |-> kw, refs |-> refs, fitted |-> FALSE]

\* The caller's params dict is the first object of the heap; the module-level
\* NUMERIC_FEATURES and CATEGORICAL_FEATURES lists of src/src/train_lightgbm.py
\* follow it.
ParamsId == 1
ModuleNumericId == 2
ModuleCategoricalId == 3

\* The steps of numeric_transformer and of categorical_transformer.
NumericSteps(s) ==
    IF s \in {RF, ROOT_RF}
    THEN <<Object("SimpleImputer", [strategy |-> "median"], <<>>),
           Object("StandardScaler", <<>>, <<>>)>>
    ELSE <<Object("SimpleImputer", [strategy |-> "median"], <<>>)>>

CategoricalSteps_DefaultEncoder(s) ==
    IF s = LGBM
    THEN <<Object("OneHotEncoder", [handle_unknown |-> "error"], <<>>)>>
    ELSE <<Object("SimpleImputer", [strategy |-> "most_frequent"], <<>>),
           Object("OneHotEncoder", [handle_unknown |-> "error"], <<>>)>>

CategoricalSteps(s) ==
    IF s = LGBM
    THEN <<Object("OneHotEncoder", [handle_unknown |-> "ignore"], <<>>)>>
    ELSE <<Object("SimpleImputer", [strategy |-> "most_frequent"], <<>>),
           Object("OneHotEncoder", [handle_unknown |-> "ignore"], <<>>)>>

\* The keyword arguments the builder writes as literals.
FixedKeywords(s) ==
    IF s \in {RF, ROOT_RF} THEN [n_jobs |-> "-1"]
    ELSE [objective |-> "binary", n_jobs |-> "-1"]

\* The keyword arguments of the estimator's constructor call.
EstimatorKeywords(s, random_state, params) ==
    [name \in HyperNames(s) |-> params[name]]
    @@ FixedKeywords(s)
    @@ [random_state |-> random_state]

\* Every hyperparameter read with params.pop(name): the caller's dict loses
\* the names read.
BuildObjects_Popping(s, random_state, h) ==
    LET params == h[ParamsId].kw
        r == build_pipeline(s, params)
        n == Len(h)
    IN  IF r.err # NoError THEN [err |-> r.err, heap |-> h, ret |-> 0]
        ELSE [err |-> NoError,
              heap |-> [h EXCEPT ![ParamsId].kw =
                            [name \in DOMAIN params \ HyperNames(s) |-> params[name]]]
                       \o <<Object("ColumnTransformer", <<>>, <<>>),
                            Object(r.pipeline.estimator,
                                   EstimatorKeywords(s, random_state, params), <<>>),
                            Object("Pipeline", <<>>, <<n + 1, n + 2>>)>>,
              ret |-> n + 3]

\* build_pipeline(random_state, params) on the heap h: the error it raises,
\* or the heap with the objects it created appended in creation order and
\* the identity of the Pipeline it returns.  A call that raises leaves
\* nothing the caller can reach.
BuildObjects(s, random_state, h) ==
    LET params == h[ParamsId].kw
        r == build_pipeline(s, params)
        n == Len(h)
        lists == IF s = LGBM THEN <<>>
                 ELSE <<Object("list", [items |-> NUMERIC_FEATURES], <<>>),
                        Object("list", [items |-> CATEGORICAL_FEATURES], <<>>)>>
        numeric_features == IF s = LGBM THEN ModuleNumericId ELSE n + 1
        categorical_features == IF s = LGBM THEN ModuleCategoricalId ELSE n + 2
        a == n + Len(lists)
        num == NumericSteps(s)
        numeric_transformer == a + Len(num) + 1
        cat == CategoricalSteps(s)
        categorical_transformer == numeric_transformer + Len(cat) + 1
        preprocessor == categorical_transformer + 1
        model == preprocessor + 1
    IN  IF r.err # NoError THEN [err |-> r.err, heap |-> h, ret |-> 0]
        ELSE [err |-> NoError,
              heap |-> h \o lists
                       \o num
                       \o <<Object("Pipeline", <<>>,
                                   [i \in 1..Len(num) |-> a + i])>>
                       \o cat
                       \o <<Object("Pipeline", <<>>,
                                   [i \in 1..Len(cat) |-> numeric_transformer + i])>>
                       \o <<Object("ColumnTransformer", <<>>,
                                   <<numeric_transformer, numeric_features,
                                     categorical_transformer, categorical_features>>),
                            Object(r.pipeline.estimator,
                                   EstimatorKeywords(s, random_state, params), <<>>),
                            Object("Pipeline", <<>>, <<preprocessor, model>>)>>,
              ret |-> model + 1]

\* The objects an object refers to, itself included, three levels down:
\* Pipeline, ColumnTransformer and estimator, inner Pipelines and lists, steps.
Referred(h, S) == S \cup UNION {Range(h[i].refs) : i \in S}
Reach(h, id) == Referred(h, Referred(h, Referred(h, {id})))

\* The params dicts a caller passes: the two ends of the search space, one
\* with a searched name absent, one with entries the builder does not read.
BuildParams(s) ==
    {TrialParams(s, 1),
     TrialParams(s, 2),
     [name \in HyperNames(s) \ {"n_estimators"} |-> TrialParams(s, 1)[name]],
     TrialParams(s, 1) @@ [n_jobs |-> "4", objective |-> "regression"]}

InitialHeap(s, params) ==
    <<Object("dict", params, <<>>)>>
    \o (IF s = LGBM
        THEN <<Object("list", [items |-> NUMERIC_FEATURES], <<>>),
               Object("list", [items |-> CATEGORICAL_FEATURES], <<>>)>>
        ELSE <<>>)

InitBuild ==
    /\ script \in TrainingScripts
    /\ pc = "caller"
    /\ err = NoError
    /\ args = NoArgs
    /\ dataFile = NoCsv
    /\ testFile = NoCsv
    /\ train = NoData
    /\ external = NoData
    /\ tune = NoTune
    /\ pipeline = NoPipeline
    /\ fit = NoFit
    /\ cleaned = NoData
    /\ fs = EmptyFs
    /\ warnings = {}
    /\ calls = <<>>
    /\ registry = NoRegistry
    /\ onnx = NoOnnx
    /\ procs = <<>>
    /\ \E params \in BuildParams(script) : heap = InitialHeap(script, params)

\* One call build_pipeline(random_state, params) by a caller that goes on
\* after an exception.
BuildCall ==
    /\ pc = "caller"
    /\ Len(calls) < MaxBuildCalls
    /\ \E random_state \in RandomStates :
        LET r == BuildObjects(script, random_state, heap)
        IN  /\ heap' = r.heap
            /\ err' = r.err
            /\ calls' = Append(calls, [random_state |-> random_state, before |-> heap,
                                       after |-> r.heap, err |-> r.err, ret |-> r.ret])
    /\ UNCHANGED <<script, pc, args, dataFile, testFile, train, external, tune, pipeline,
                   fit, cleaned, fs, warnings, registry, onnx, procs>>

\* The caller fits a pipeline it was returned: fit marks the pipeline and
\* every transformer and estimator under it.
CallerFits ==
    /\ pc = "caller"
    /\ \E i \in 1..Len(calls) :
        /\ calls[i].ret # 0
        /\ ~heap[calls[i].ret].fitted
        /\ heap' = [id \in DOMAIN heap |->
                      IF id \in Reach(heap, calls[i].ret) /\ heap[id].class # "list"
                      THEN [heap[id] EXCEPT !.fitted = TRUE]
                      ELSE heap[id]]
    /\ UNCHANGED <<script, pc, err, args, dataFile, testFile, train, external, tune,
                   pipeline, fit, cleaned, fs, warnings, calls, registry, onnx, procs>>

NextBuild == BuildCall \/ CallerFits

SpecBuild == InitBuild /\ [][NextBuild]_vars



\* ============================================================ the categorical branch
\* The categorical branch of the ColumnTransformer, followed for one column:
\* the steps build_pipeline lists are fitted on the training column in order
\* and applied to one cell at inference time.

MaxFitValues == 3
MaxTransforms == 2

\* Cells of a categorical column as the CSV file holds them; "X" is a port no
\* training file has.
RawCategoricalCells == {Str("C"), Str("Q"), Str("S"), NaN}
InferenceCells == RawCategoricalCells \cup {Str("X")}

\* The order numpy sorts these texts in (upper case before lower case).
CategoryOrder == <<Str("C"), Str("Q"), Str("S"), Str("X"), Str("missing")>>

Sorted(S) == SelectSeq(CategoryOrder, LAMBDA v : v \in S)

\* The column as the script's loader hands it to the pipeline.
LoadedCategorical(s, v) ==
    LoaderCell(s, [dtype |-> [c \in {"Embarked"} |-> "object"]], "Embarked", v)

Occurrences(col, v) == Cardinality({i \in 1..Len(col) : col[i] = v})

\* SimpleImputer(strategy="most_frequent").fit: the most frequent present
\* value, the smallest one on a tie.
MostFrequent(col) ==
    LET present == {v \in Range(col) : ~IsNa(v)}
        modes == {v \in present : \A w \in present : Occurrences(col, w) <= Occurrences(col, v)}
    IN  Head(Sorted(modes))

\* step.fit(column): what the step learns.
FitStep(o, col) ==
    IF o.class = "SimpleImputer"
    THEN [class |-> o.class, kw |-> o.kw, learned |-> <<MostFrequent(col)>>]
    ELSE [class |-> o.class, kw |-> o.kw, learned |-> Sorted(Range(col))]

\* SimpleImputer.transform on one cell.
Impute(f, v) == IF IsNa(v) THEN f.learned[1] ELSE v

\* OneHotEncoder.transform on one cell: one indicator per learned category;
\* a cell outside the categories gives no indicator under
\* handle_unknown="ignore" and raises ValueError otherwise.
OneHot(f, v) ==
    IF v \in Range(f.learned)
    THEN [err |-> NoError,
          block |-> [i \in 1..Len(f.learned) |-> IF f.learned[i] = v THEN 1 ELSE 0]]
    ELSE IF f.kw.handle_unknown = "ignore"
    THEN [err |-> NoError, block |-> [i \in 1..Len(f.learned) |-> 0]]
    ELSE [err |-> Error("ValueError", {}, "OneHotEncoder.transform"), block |-> <<>>]

\* Pipeline.fit: each step is fitted on what the steps before it give.
RECURSIVE FitBranch(_, _)
FitBranch(steps, col) ==
    IF steps = <<>> THEN <<>>
    ELSE LET f == FitStep(Head(steps), col)
         IN  <<f>> \o FitBranch(Tail(steps),
                                IF f.class = "SimpleImputer"
                                THEN [i \in 1..Len(col) |-> Impute(f, col[i])]
                                ELSE col)

\* Pipeline.transform on one cell.
RECURSIVE TransformBranch(_, _)
TransformBranch(fitted, v) ==
    IF Head(fitted).class = "SimpleImputer"
    THEN TransformBranch(Tail(fitted), Impute(Head(fitted), v))
    ELSE OneHot(Head(fitted), v)

\* Training columns: at least one present value.
FitColumns ==
    {col \in SeqsUpTo(RawCategoricalCells, MaxFitValues) :
        \E i \in 1..Len(col) : ~IsNa(col[i])}

InitEncode ==
    /\ script \in TrainingScripts
    /\ pc = "caller"
    /\ err = NoError
    /\ args = NoArgs
    /\ dataFile = NoCsv
    /\ testFile = NoCsv
    /\ external = NoData
    /\ tune = NoTune
    /\ pipeline = NoPipeline
    /\ fit = NoFit
    /\ cleaned = NoData
    /\ fs = EmptyFs
    /\ warnings = {}
    /\ calls = <<>>
    /\ registry = NoRegistry
    /\ onnx = NoOnnx
    /\ procs = <<>>
    /\ \E raw \in FitColumns :
          LET col == [i \in 1..Len(raw) |-> LoadedCategorical(script, raw[i])]
          IN  /\ train = [X |-> col, y |-> NoSeries]
              /\ heap = FitBranch(CategoricalSteps(script), col)

\* One cell of a later file goes through the loader and the fitted branch.
TransformCall ==
    /\ pc = "caller"
    /\ Len(calls) < MaxTransforms
    /\ \E raw \in InferenceCells :
          LET v == LoadedCategorical(script, raw)
              r == TransformBranch(heap, v)
          IN  calls' = Append(calls, [value |-> v, err |-> r.err, block |-> r.block])
    /\ UNCHANGED <<script, pc, err, args, dataFile, testFile, train, external, tune,
                   pipeline, fit, cleaned, fs, warnings, registry, onnx, procs, heap>>

NextEncode == TransformCall

SpecEncode == InitEncode /\ [][NextEncode]_vars


\* ============================================================ claims
LoadScripts == TrainingScripts

\* The training file has been through load_dataset.
TrainLoadDone == script \in LoadScripts /\ pc \notin {"start", "parsed"}
\* The test file has been through load_dataset.
TestLoadDone == script \in LoadScripts /\ testFile # NoCsv

MissingColumnError(e) == e.type = "ValueError" /\ e.at = "load_dataset"

\* What load_dataset must have come to on file f with result d.
MissingColumnContract(f, d, failedHere) ==
    IF ~(RequiredColumns \subseteq f.cols)
    THEN /\ pc = "failed"
         /\ MissingColumnError(err)
         /\ err.columns = RequiredColumns \ f.cols
         /\ d = NoData
    ELSE failedHere => ~MissingColumnError(err)

\* C1: load_dataset raises the missing-column error exactly when a required
\* column is absent from the file, the error names exactly the required
\* columns that are absent, and nothing is returned then; a file with all
\* required columns (extra ones or not) raises no missing-column error.
C1_MissingColumns ==
    /\ TrainLoadDone =>
        MissingColumnContract(dataFile, train, pc = "failed" /\ testFile = NoCsv)
    /\ TestLoadDone =>
        MissingColumnContract(testFile, external, pc = "failed" /\ external = NoData)

\* C1 witness: a file with an extra column and two required columns absent
\* was refused, both columns named.
C1_Witness ==
    /\ script \in LoadScripts
    /\ pc = "failed"
    /\ ExtraColumn \in dataFile.cols
    /\ err.columns = {"Age", TARGET}

\* The positions of the rows of file f whose target cell is not empty.
RowsWithTarget(f) == {i \in 1..Len(f.rows) : f.rows[i][TARGET] # ""}

\* The returned rows are the file's rows with a target, in file order, each
\* under the index label of its position in the file.
KeepsRowsWithTarget(f, d) ==
    /\ Len(d.X.rows) = Cardinality(RowsWithTarget(f))
    /\ Len(d.y.rows) = Len(d.X.rows)
    /\ \A i \in 1..Len(d.X.rows) :
        /\ d.X.rows[i].idx + 1 \in RowsWithTarget(f)
        /\ d.y.rows[i].idx = d.X.rows[i].idx
        /\ i > 1 => d.X.rows[i - 1].idx < d.X.rows[i].idx
        /\ d.y.rows[i].v = Num(f.rows[d.X.rows[i].idx + 1][TARGET])

\* The value pandas read from the file for column c of the returned row r.
FileValue(f, r, c) == ReadCell(InferDtype(f, c), f.rows[r.idx + 1][c])

FeaturesUnchanged(f, d, cols) ==
    \A r \in Range(d.X.rows) : \A c \in cols : r.cells[c] = FileValue(f, r, c)

\* C2 as stated: in every variant the loader returns exactly the rows with a
\* target, in order, under their index, with every feature value unchanged.
C2_Original ==
    /\ TrainLoadDone /\ train # NoData =>
        /\ KeepsRowsWithTarget(dataFile, train)
        /\ FeaturesUnchanged(dataFile, train, Range(FEATURES))
    /\ TestLoadDone /\ external # NoData =>
        /\ KeepsRowsWithTarget(testFile, external)
        /\ FeaturesUnchanged(testFile, external, Range(FEATURES))

\* The categorical features as train_lightgbm.py returns them: strings, a
\* missing value as "missing", a number as its text.
CategoricalAsStrings(f, d) ==
    \A r \in Range(d.X.rows) : \A c \in Range(CATEGORICAL_FEATURES) :
        LET t == f.rows[r.idx + 1][c]
        IN  /\ r.cells[c].k = "str"
            /\ r.cells[c].s \in (IF t = "" THEN {"missing"} ELSE {t, t \o ".0"})

LoaderContract(f, d) ==
    /\ KeepsRowsWithTarget(f, d)
    /\ FeaturesUnchanged(f, d, Range(NUMERIC_FEATURES))
    /\ IF script = LGBM
       THEN CategoricalAsStrings(f, d)
       ELSE FeaturesUnchanged(f, d, Range(CATEGORICAL_FEATURES))

\* C2 amended: every loader returns exactly the rows with a target, in file
\* order and under their original index, the target as an integer and the
\* numeric features unchanged; the categorical features are unchanged too,
\* except in src/src/train_lightgbm.py, which returns them as strings with a
\* missing value replaced by "missing".
C2_Amended ==
    /\ TrainLoadDone /\ train # NoData => LoaderContract(dataFile, train)
    /\ TestLoadDone /\ external # NoData => LoaderContract(testFile, external)

\* C2 witness: the first row of the file had no target and was dropped, the
\* next row kept its index label 1, and a row with an empty numeric feature
\* came through the test file's load.
C2_Witness ==
    /\ script = LGBM
    /\ pc = "loaded"
    /\ dataFile.rows # <<>>
    /\ dataFile.rows[1][TARGET] = ""
    /\ train.X.rows # <<>>
    /\ train.X.rows[1].idx = 1
    /\ Len(external.X.rows) < Len(testFile.rows)

\* C3 as stated: the label vector handed to any fit holds no missing value.
C3_NoMissingLabelInFit ==
    fit # NoFit => \A v \in DOMAIN fit.y : ~IsNa(v)


\* ------------------------------------------------------------ C4
FilesOfKind(k) == {p \in DOMAIN fs.files : fs.files[p].kind = k}
ReportsWritten == FilesOfKind("metrics") # {}
ExportsWritten == FilesOfKind("pickle") \cup FilesOfKind("pmml") \cup FilesOfKind("onnx")

\* main() is past evaluate.
Evaluated == pc \in {"evaluated", "pmml_step_done", "done"}

\* C4: in every Titanic training entry point the steps run in the order load,
\* tune, build from the tuner's best params, fit on the full training set,
\* evaluate, persist/export, each only after the one before it completed:
\* nothing of a later step exists while an earlier step has not completed,
\* and a run that raised has written no artifact of a later step.
C4_StepOrder ==
    script \in TrainingScripts =>
        /\ tune # NoTune => train # NoData /\ external # NoData
        /\ pipeline # NoPipeline =>
            /\ tune.best # <<>>
            /\ pipeline.hyper = tune.best
        /\ pipeline.fitted => pipeline # NoPipeline /\ fit.by \notin {"", "objective"}
        /\ ReportsWritten => pipeline.fitted
        /\ pc \in {"fitted", "evaluated"} => pipeline.rows = IdxOf(train.X.rows)
        /\ Evaluated => pipeline.fitted /\ (WritesReports(script) => ReportsWritten)
        /\ ExportsWritten # {} => Evaluated
        /\ pc = "failed" => ExportsWritten = {}
        /\ pc = "failed" /\ err.at # "evaluate" => ~Evaluated /\ ~ReportsWritten
        /\ pc = "failed" /\ err.at = "evaluate" => pipeline.fitted /\ ~ReportsWritten

\* C4 witness: a run that raised in evaluate after a completed fit, with no
\* report and no saved model.
C4_Witness ==
    /\ script \in {RF, TITANIC_LGBM}
    /\ pc = "failed"
    /\ err.at = "evaluate"
    /\ pipeline.fitted
    /\ fs = EmptyFs

\* ------------------------------------------------------------ C5
PmmlWarning == "Failed to export LightGBM PMML"
OnnxWarning == "Failed to export LightGBM ONNX"

\* C5 as stated: in train_lightgbm.py a failed export is caught and warned
\* about, the other export is still attempted, the run ends normally, and the
\* fitted pipeline is saved.
C5_ExportsIndependentAndSaved ==
    script = LGBM /\ pc = "done" =>
        /\ err = NoError
        /\ ~args.skip_onnx =>
            OnnxWarning \in warnings \/ FilesOfKind("onnx") # {}
        /\ ~args.skip_pmml =>
            PmmlWarning \in warnings \/ FilesOfKind("pmml") # {}
        /\ FilesOfKind("pickle") # {}

\* ------------------------------------------------------------ C6
ExportSites == {"sklearn2pmml", "convert_sklearn", "export_pipeline_to_pmml",
                "export_pipeline_to_onnx"}
ExportingScripts == {LGBM, IRIS} \cup ExportScripts

C7_ZeroTrialsAsOne ==
    script \in TrainingScripts /\ args.n_trials = 0 /\ pc \notin {"start", "parsed"} =>
        ~(pc = "failed" /\ err.at = "study.best_value")

\* ------------------------------------------------------------ C8
MetricsPath(s) ==
    DEFAULT_REPORT_DIR(s) \o "/" \o sanitize_label(ExternalTestLabel) \o "_metrics.json"

MetricsWritten(s) ==
    /\ MetricsPath(s) \in DOMAIN fs.files
    /\ DOMAIN fs.files[MetricsPath(s)].json = {"roc_auc", "accuracy", "support"}
    /\ fs.files[MetricsPath(s)].json.support = Len(external.y.rows)
    /\ fs.files[MetricsPath(s)].json.support = Len(external.X.rows)
    /\ fs.files[MetricsPath(s)].json.support = Cardinality(RowsWithTarget(testFile))

Proportional(labels, S) == S \in StratifiedSubsets(labels, Cardinality(S))

\* C9: while tune_hyperparameters searches, the rows every trial has split
\* are one and the same set: a stratified subsample of exactly sample_size
\* rows when sample_size > 0 and the training set is larger, the whole
\* training set otherwise; the final pipeline of main() is fitted on all
\* loaded training rows.
C9_SubsampleForSearchOnly ==
    script \in TrainingScripts =>
        /\ pc = "tuning" \/ (pc = "failed" /\ tune.inputs # {}) =>
            LET all == IdxOf(train.X.rows)
                k == args.tune_sample_size
            IN  /\ tune.inputs \subseteq {tune.rows}
                /\ tune.n_done > 0 \/ pc = "failed" => tune.inputs = {tune.rows}
                /\ IF k > 0 /\ Len(train.X.rows) > k
                   THEN /\ Cardinality(tune.rows) = k
                        /\ tune.rows \subseteq all
                        /\ Proportional(LabelsOf(train.y, all), tune.rows)
                   ELSE tune.rows = all
        /\ fit.by = "main" =>
            fit.y = LabelVector(LabelsOf(train.y, IdxOf(train.y.rows)))
        /\ pc \in {"fitted", "evaluated"} => pipeline.rows = IdxOf(train.X.rows)

\* C9 witness: two trials were run on a subsample of four of the seven
\* training rows.
C9_Witness ==
    /\ script \in TrainingScripts
    /\ pc = "tuning"
    /\ args.tune_sample_size = 4
    /\ Len(train.X.rows) = 7
    /\ Cardinality(tune.rows) = 4
    /\ tune.n_done = 2
    /\ tune.inputs = {tune.rows}

\* ------------------------------------------------------------ C10
\* The label the input paired with the feature row of index label i.
InputLabel(i) ==
    IF script = LGBM
    THEN LabelsOf(train.y, {i})[i]
    ELSE ReadCell(InferDtype(dataFile, TARGET), dataFile.rows[i + 1][TARGET])

\* The index labels of the input rows a numeric column of which holds a
\* string that is no number.
RowsWithBadNumber ==
    {i - 1 : i \in {j \in 1..Len(dataFile.rows) :
                      \E c \in Range(NUMERIC_FEATURES) :
                          dataFile.rows[j][c] \notin NumericTexts \cup {""}}}

\* C10: after the PMML cleaning (in export_pipeline_to_pmml and in the
\* export_to_pmml scripts) the feature table and the label vector have the
\* same index sequence, every retained label is the one the input paired with
\* that feature row, and a row whose numeric column holds a non-numeric
\* string is in neither.
C10_CleaningKeepsAlignment ==
    cleaned # NoData =>
        /\ Index(cleaned.X.rows) = Index(cleaned.y.rows)
        /\ \A i \in 1..Len(cleaned.y.rows) :
            cleaned.y.rows[i].v = InputLabel(cleaned.X.rows[i].idx)
        /\ IdxOf(cleaned.X.rows) \cap RowsWithBadNumber = {}
        /\ IdxOf(cleaned.y.rows) \cap RowsWithBadNumber = {}

\* C10 witness: the first row of the file held a non-numeric Age and was
\* dropped; the rows after it were kept, features and labels alike.
C10_Witness ==
    /\ script \in ExportScripts
    /\ cleaned # NoData
    /\ 0 \in RowsWithBadNumber
    /\ Len(cleaned.X.rows) = 6
    /\ cleaned.X.rows[1].idx = 1
    /\ cleaned.y.rows[1].idx = 1


\* ------------------------------------------------------------ C11
\* The index labels of the rows handed to the PMML cleaning: X_train_full in
\* train_lightgbm.py, every row of the file in the export_to_pmml scripts.
CleaningInputRows ==
    IF script = LGBM THEN IdxOf(train.X.rows) ELSE {i - 1 : i \in 1..Len(dataFile.rows)}

\* Every numeric feature of the file row under index label i is a number.
NumericParses(i) ==
    \A c \in Range(NUMERIC_FEATURES) : dataFile.rows[i + 1][c] \in NumericTexts

\* A row is retained iff every numeric feature of it is a number.
RetainedExactly ==
    IdxOf(cleaned.X.rows) = {i \in CleaningInputRows : NumericParses(i)}

\* The rows the fit of the exported pipeline used: X_train_full in
\* train_lightgbm.py; for the export_to_pmml scripts the rows load_dataset of
\* the training script that wrote the pickle returns on the same data file.
OriginalFitRows ==
    IF script = LGBM THEN IdxOf(train.X.rows)
    ELSE {i - 1 : i \in RowsWithTarget(dataFile)}

\* C11 as stated: the PMML cleaning retains a row iff every numeric feature
\* of it parses to a number (a missing non-numeric feature never drops it),
\* and the retained rows are a subset of the rows the original fit used.
C11_RetainedRows ==
    cleaned # NoData =>
        /\ RetainedExactly
        /\ IdxOf(cleaned.X.rows) \subseteq OriginalFitRows


\* ------------------------------------------------------------ C16
\* C16: an export_to_pmml script run without the pickled model file fails
\* with FileNotFoundError before the dataset is read, before any fit, and
\* with no directory or file created or modified.
C16_MissingModelFailsFirst ==
    script \in ExportScripts /\ DEFAULT_MODEL_PATH(RF) \notin DOMAIN fs.files
        /\ pc # "start" =>
            /\ pc = "failed"
            /\ err = Error("FileNotFoundError", {}, "main")
            /\ cleaned = NoData
            /\ pipeline = NoPipeline
            /\ fit = NoFit
            /\ fs = EmptyFs

\* C16 witness: the script failed on the missing pickle, on a data file it
\* could have cleaned.
C16_Witness ==
    /\ script \in ExportScripts
    /\ pc = "failed"
    /\ err.type = "FileNotFoundError"
    /\ RequiredColumns \subseteq dataFile.cols
    /\ dataFile.rows # <<>>

\* ------------------------------------------------------------ C17
\* The subsample split of tune_hyperparameters is made and is refused.
SubsampleSplitFails ==
    LET n == Len(train.X.rows)
        k == args.tune_sample_size
    IN  /\ k > 0
        /\ n > k
        /\ StratifyFails(LabelsOf(train.y, IdxOf(train.y.rows)), k, n - k)

\* The train/validation split of a trial on the rows S is refused.
TrialSplitFails(S) ==
    LET n_test == NTestOfFraction(args.test_size, Cardinality(S))
    IN  StratifyFails(LabelsOf(train.y, S), Cardinality(S) - n_test, n_test)

PastTuning == pc \in {"tuned", "built", "fitted", "evaluated", "pmml_step_done", "done"}

\* C17: a stratified split that fails during tuning (the subsample split or
\* a trial's split) is not caught: the run does not go on past it, it ends
\* with that error, and it has written no report, pickle, PMML or ONNX file.
C17_SplitFailureAborts ==
    script \in TrainingScripts =>
        /\ pc = "tuning" \/ PastTuning => ~SubsampleSplitFails
        /\ pc = "tuning" /\ tune.n_done > 0 => ~TrialSplitFails(tune.rows)
        /\ PastTuning /\ (args.tune_sample_size = 0
                          \/ Len(train.X.rows) <= args.tune_sample_size) =>
            ~TrialSplitFails(IdxOf(train.X.rows))
        /\ err.at = "train_test_split" =>
            /\ pc = "failed"
            /\ err.type = "ValueError"
            /\ pipeline = NoPipeline
            /\ fs \in InitialFs(script)

\* C17 witness: the subsample split was refused and ended the run.
C17_Witness ==
    /\ script \in TrainingScripts
    /\ pc = "failed"
    /\ err.at = "train_test_split"
    /\ SubsampleSplitFails
    /\ tune = NoTune


\* ------------------------------------------------------------ C12
\* The key of each label explored: lower case, spaces as underscores.
KeyOf(label) ==
    IF label = ValidLabel THEN "valid" ELSE "external_test"

\* The three files of a key in the directory dir.
FilesOfKey(dir, key) ==
    {dir \o "/" \o key \o "_classification_report.txt",
     dir \o "/" \o key \o "_metrics.json",
     dir \o "/" \o key \o "_roc_curve.png"}

\* The file system the i-th call left.
After(i) == IF i < Len(calls) THEN calls[i + 1].before ELSE fs

\* The files of the key hold what the call c wrote, and nothing else.
HoldsOutputOf(files, dir, c) ==
    LET key == KeyOf(c.label)
        n == Len(c.y_test.rows)
    IN  /\ FilesOfKey(dir, key) \subseteq DOMAIN files
        /\ files[dir \o "/" \o key \o "_classification_report.txt"]
            = [kind |-> "classification_report", support |-> n]
        /\ files[dir \o "/" \o key \o "_metrics.json"]
            = [kind |-> "metrics",
               json |-> [roc_auc |-> "roc_auc_score", accuracy |-> "accuracy_score",
                         support |-> n]]
        /\ files[dir \o "/" \o key \o "_roc_curve.png"]
            = [kind |-> "roc_curve", support |-> n,
               title |-> IF c.label = ExternalTestLabel THEN "ROC Curve - external test"
                         ELSE IF c.label = CapitalisedLabel
                         THEN "ROC Curve - External Test"
                         ELSE "ROC Curve - valid"]

\* C12: over any sequence of evaluate calls on one output directory, each
\* completed call leaves the directory in existence, holding for the key of
\* its label exactly the three files with the content of that call alone
\* (whatever an earlier call or run left under that key is replaced), and
\* every file of another key as it was; labels differing in case only share
\* their files.
C12_ReportsOverwrittenPerKey ==
    LET dir == DEFAULT_REPORT_DIR(script)
    IN  \A i \in 1..Len(calls) :
            ~calls[i].raised =>
                LET before == calls[i].before.files
                    after == After(i).files
                    mine == FilesOfKey(dir, KeyOf(calls[i].label))
                IN  /\ dir \in After(i).dirs
                    /\ DOMAIN after = DOMAIN before \cup mine
                    /\ HoldsOutputOf(after, dir, calls[i])
                    /\ \A p \in DOMAIN before \ mine : after[p] = before[p]

\* C12 witness: a call labelled "External Test" replaced the files an earlier
\* call labelled "external test" had written with another row count, in a
\* directory that also holds the files of an earlier run under another key.
C12_Witness ==
    /\ Len(calls) = 2
    /\ calls[1].label = ExternalTestLabel /\ ~calls[1].raised
    /\ calls[2].label = CapitalisedLabel /\ ~calls[2].raised
    /\ Len(calls[1].y_test.rows) # Len(calls[2].y_test.rows)
    /\ calls[1].before.files # <<>>
    /\ HoldsOutputOf(fs.files, DEFAULT_REPORT_DIR(script), calls[2])

\* ------------------------------------------------------------ C18
\* The held-out labels are of a single class.
SingleClass(y_test) == \A a, b \in Range(y_test.rows) : a.v = b.v

\* C18: evaluate raises exactly on malformed input (a single-class test
\* set); the error reaches the caller, and the call leaves the report
\* directory and every report file as it found them.
C18_EvaluateErrorLeavesNoTrace ==
    /\ \A i \in 1..Len(calls) :
        /\ calls[i].raised <=> SingleClass(calls[i].y_test)
        /\ calls[i].raised => After(i) = calls[i].before
    /\ calls # <<>> =>
        IF calls[Len(calls)].raised
        THEN err.type = "ValueError" /\ err.at = "evaluate"
        ELSE err = NoError

\* C18 witness: a call on a single-class test set raised, once in a directory
\* that did not exist and once after a completed call had written reports.
C18_Witness ==
    /\ Len(calls) = 3
    /\ calls[1].raised /\ calls[1].before = EmptyFs
    /\ ~calls[2].raised
    /\ calls[3].raised
    /\ err.at = "evaluate"
    /\ fs = calls[3].before
    /\ fs.files # <<>>


\* ------------------------------------------------------------ C13
\* The tensor type the claim gives the i-th column of the frame.
ClaimedTensorType(i) ==
    LET column == onnx.X.cols[i]
        dtype == onnx.X.dtype[column]
    IN  IF column \in onnx.string_feature_names THEN "StringTensorType"
        ELSE IF column \in onnx.float_feature_names \/ dtype = "float64"
        THEN "FloatTensorType"
        ELSE IF dtype = "int64" THEN "Int64TensorType"
        ELSE "StringTensorType"

\* C13: export_pipeline_to_onnx declares exactly one input per column of the
\* frame, in column order, each of shape [None, 1]; its type is string for a
\* column in string_feature_names, else float for one in float_feature_names
\* or of floating dtype, else int64 for an integer dtype, else string.
C13_InitialTypes ==
    onnx.called =>
        /\ Len(onnx.initial_types) = Len(onnx.X.cols)
        /\ \A i \in 1..Len(onnx.X.cols) :
            /\ onnx.initial_types[i].name = onnx.X.cols[i]
            /\ onnx.initial_types[i].shape = <<None, 1>>
            /\ onnx.initial_types[i].type = ClaimedTensorType(i)

\* C13 witness: an integer column named in both override sets was declared a
\* string tensor, after an object column named as float declared a float
\* tensor.
C13_Witness ==
    /\ onnx.called
    /\ onnx.X.cols = <<"Sex", "Age">>
    /\ onnx.X.dtype["Sex"] = "object" /\ onnx.X.dtype["Age"] = "int64"
    /\ onnx.float_feature_names = {"Age", "Sex"}
    /\ onnx.string_feature_names = {"Age"}
    /\ onnx.initial_types[1].type = "FloatTensorType"
    /\ onnx.initial_types[2].type = "StringTensorType"

\* ------------------------------------------------------------ C14
\* The pipelines explored whose last step is an LGBM* estimator.
EndsWithLgbm(p) ==
    /\ p.has_steps
    /\ p.steps # <<>>
    /\ p.steps[Len(p.steps)] \in {LGBMClassifierName, LGBMRegressorName}

\* C14: the opset handed to the converter has the default domain at 17 when
\* no target opset was given and at the caller's value otherwise, keeps every
\* entry of a caller's dict, carries "ai.onnx.ml": 3 exactly when the last
\* step is an LGBM* estimator and the caller gave no such entry, carries no
\* other entry, and the caller's object is as it was.
C14_NormalisedOpset ==
    calls # <<>> =>
        LET c == calls[Len(calls)]
            t == c.target_opset
            o == onnx.opset
            given == IF t.k = "dict" THEN DOMAIN t.v ELSE {""}
            supplied == t.k = "dict" /\ "ai.onnx.ml" \in DOMAIN t.v
        IN  /\ given \subseteq DOMAIN o
            /\ t = None => o[""] = 17
            /\ t.k = "int" => o[""] = t.v
            /\ t.k = "dict" => \A key \in DOMAIN t.v : o[key] = t.v[key]
            /\ DOMAIN o \ given =
                IF EndsWithLgbm(c.pipeline) /\ ~supplied THEN {"ai.onnx.ml"} ELSE {}
            /\ EndsWithLgbm(c.pipeline) /\ ~supplied => o["ai.onnx.ml"] = 3
            /\ onnx.target_opset = t

\* C14 witness: a caller's dict with "ai.onnx.ml": 2 went through a call with
\* a LightGBM pipeline and kept its version.
C14_Witness ==
    /\ calls # <<>>
    /\ EndsWithLgbm(calls[Len(calls)].pipeline)
    /\ onnx.target_opset = Dict(("" :> 15) @@ ("ai.onnx.ml" :> 2))
    /\ onnx.opset = (("" :> 15) @@ ("ai.onnx.ml" :> 2))

\* ------------------------------------------------------------ C15
\* The registry the i-th call left.
RegistryAfter(i) == IF i < Len(calls) THEN calls[i + 1].before ELSE registry

\* C15: over any sequence of export_pipeline_to_onnx calls in one process, a
\* call made with the done flag set does no lookup and changes nothing; a
\* call whose import fails changes nothing, leaves the flag unset and still
\* reaches the conversion; any other call sets the flag and registers
\* exactly the LightGBM types that had no shape calculator.  No type is
\* registered twice.  The options are the flattened ones exactly when the
\* pipeline's last step is an LGBM* estimator, and None otherwise.
C15_RegistrationOnce ==
    /\ \A i \in 1..Len(calls) :
        LET c == calls[i]
            b == c.before
            a == RegistryAfter(i)
        IN  /\ c.converted
            /\ IF b.done THEN a = b /\ c.lookups = <<>>
               ELSE IF ~c.importable THEN a = b /\ c.lookups = <<>>
               ELSE /\ a.done
                    /\ a.shape_calculators = b.shape_calculators \cup Range(LightGbmTypes)
                    /\ \A t \in Range(LightGbmTypes) :
                        t \in Range(a.registered) <=> t \notin b.shape_calculators
    /\ \A j, k \in 1..Len(registry.registered) :
        j # k => registry.registered[j] # registry.registered[k]
    /\ calls # <<>> =>
        onnx.options = IF EndsWithLgbm(calls[Len(calls)].pipeline)
                       THEN Dict([zipmap |-> FALSE, nocl |-> FALSE])
                       ELSE None

\* C15 witness: the import failed in the first call; the second call found a
\* shape calculator for the classifier, registered the regressor alone and
\* set the flag.
C15_Witness ==
    /\ Len(calls) = 2
    /\ ~calls[1].importable
    /\ calls[2].importable
    /\ ~calls[2].before.done
    /\ calls[2].before.shape_calculators = {"LGBMClassifier"}
    /\ registry.done
    /\ registry.registered = <<"LGBMRegressor">>


\* ------------------------------------------------------------ C19
\* The files an invocation of script s leaves when it runs alone in an empty
\* checkout on the machine env.
AloneArtifacts(s, env) ==
    (IF WritesReports(s) THEN OwnReports(s, dataFile) ELSE <<>>)
    @@ (IF SavesPickle(s)
        THEN (DEFAULT_MODEL_PATH(s) :> [kind |-> "pickle", model |-> {s}])
        ELSE <<>>)
    @@ (IF s = LGBM /\ env.pmml = "written"
        THEN (DEFAULT_PMML_PATH :> [kind |-> "pmml", model |-> {LGBM}])
        ELSE <<>>)
    @@ (IF s = LGBM /\ env.onnx = "written"
        THEN (DEFAULT_ONNX_PATH :> [kind |-> "onnx", model |-> {LGBM}])
        ELSE <<>>)

\* The pipelines whose output the report files of one directory hold.
ModelsReportedIn(dir) ==
    UNION {fs.files[path].model :
            path \in Range(ReportPaths(dir, ExternalTestLabel)) \cap DOMAIN fs.files}

\* C19: when two invocations of the training entry points run together with
\* the default arguments, each has, once both ended, every artifact it leaves
\* when run alone, with the same content; and at no time do the report files
\* of one directory hold output of both invocations.
C19_InvocationsIndependent ==
    procs # <<>> =>
        /\ (\A p \in 1..2 : procs[p].pc = "done") =>
                \A p \in 1..2 :
                    LET alone == AloneArtifacts(procs[p].script, procs[p].env)
                    IN  \A path \in DOMAIN alone :
                            /\ path \in DOMAIN fs.files
                            /\ fs.files[path] = alone[path]
        /\ \A p \in 1..2 :
            Cardinality(ModelsReportedIn(DEFAULT_REPORT_DIR(procs[p].script))) <= 1


\* ------------------------------------------------------------ C20
\* The estimator of a returned pipeline: its last step.
EstimatorOf(h, ret) == h[h[ret].refs[Len(h[ret].refs)]]

\* The transformers and estimators under a returned pipeline.
PartsOf(h, ret) == {id \in Reach(h, ret) : h[id].class # "list"}

\* What a call of build_pipeline leaves alone and what it returns, but for
\* the source of the hyperparameters: the objects that existed are as they
\* were (the params dict among them); the call raises exactly when a searched
\* name is absent from params; a returned pipeline is made of objects that did
\* not exist before, none of them fitted; the estimator's seed is the
\* random_state argument; and no two returned pipelines share a transformer
\* or an estimator.
BuildIsPure ==
    /\ \A i \in 1..Len(calls) :
        LET c == calls[i]
        IN  /\ \A id \in 1..Len(c.before) : c.after[id] = c.before[id]
            /\ c.err # NoError <=> ~(HyperNames(script) \subseteq DOMAIN c.before[ParamsId].kw)
            /\ c.err # NoError => c.ret = 0 /\ c.after = c.before
            /\ c.err = NoError =>
                /\ c.after[c.ret].class = "Pipeline"
                /\ \A id \in PartsOf(c.after, c.ret) :
                    id > Len(c.before) /\ ~c.after[id].fitted
                /\ EstimatorOf(c.after, c.ret).kw["random_state"] = c.random_state
    /\ \A i, j \in 1..Len(calls) :
        i # j /\ calls[i].ret # 0 /\ calls[j].ret # 0 =>
            PartsOf(heap, calls[i].ret) \cap PartsOf(heap, calls[j].ret) = {}

\* C20 as stated: build_pipeline is pure, and every hyperparameter of the
\* estimator it returns, the seed aside, equals the value under the same name
\* in params.
C20_Original ==
    /\ BuildIsPure
    /\ \A i \in 1..Len(calls) :
        calls[i].ret # 0 =>
            LET kw == EstimatorOf(calls[i].after, calls[i].ret).kw
                params == calls[i].before[ParamsId].kw
            IN  \A name \in DOMAIN kw \ {"random_state"} :
                    name \in DOMAIN params /\ kw[name] = params[name]

\* C20, amended: build_pipeline is pure, and every hyperparameter of the
\* search space equals the value under the same name in params; n_jobs is
\* always -1 and, for LightGBM, objective is always "binary", whatever params
\* holds under those names; the estimator is given nothing else.
C20_Amended ==
    /\ BuildIsPure
    /\ \A i \in 1..Len(calls) :
        calls[i].ret # 0 =>
            LET kw == EstimatorOf(calls[i].after, calls[i].ret).kw
                params == calls[i].before[ParamsId].kw
                lightgbm == script \in {LGBM, TITANIC_LGBM}
            IN  /\ DOMAIN kw = HyperNames(script) \cup {"random_state", "n_jobs"}
                                \cup (IF lightgbm THEN {"objective"} ELSE {})
                /\ \A name \in HyperNames(script) : kw[name] = params[name]
                /\ kw["n_jobs"] = "-1"
                /\ lightgbm => kw["objective"] = "binary"

\* C20 witness: two calls with a params dict that holds n_jobs = 4 returned
\* two pipelines with different seeds; the caller fitted the first before the
\* second call, and the second is unfit.
C20_Witness ==
    /\ Len(calls) = 2
    /\ calls[1].ret # 0 /\ calls[2].ret # 0
    /\ calls[1].random_state # calls[2].random_state
    /\ "n_jobs" \in DOMAIN heap[ParamsId].kw
    /\ calls[2].before[calls[1].ret].fitted
    /\ ~heap[calls[2].ret].fitted
    /\ EstimatorOf(heap, calls[2].ret).kw["n_jobs"] = "-1"


\* ------------------------------------------------------------ C22
\* The file at path is as the run found it: absent, or the earlier run's.
Untouched(path) == path \in DOMAIN fs.files => fs.files[path].kind = "stale"

\* The run wrote the file at path.
WrittenAs(path, kind) == path \in DOMAIN fs.files /\ fs.files[path].kind = kind

\* C22: in train_lightgbm.py, once main() is past the PMML step, --skip-pmml
\* means no PMML cleaning, no re-fit, no warning and the PMML path as it was
\* found; without it the export was attempted once and either wrote the file
\* or logged its warning.  The same holds of --skip-onnx once main() ended,
\* whatever the PMML flag and the PMML outcome.  The export directory is made
\* only by an attempted export, and the reports are there in every case.
C22_SkipFlagsIndependent ==
    script = LGBM /\ pc \in {"pmml_step_done", "done"} =>
        /\ args.skip_pmml =>
            /\ cleaned = NoData
            /\ fit.by = "main"
            /\ PmmlWarning \notin warnings
            /\ Untouched(DEFAULT_PMML_PATH)
        /\ ~args.skip_pmml =>
            /\ cleaned # NoData
            /\ fit.by = "export_pipeline_to_pmml"
            /\ PmmlWarning \in warnings <=> ~WrittenAs(DEFAULT_PMML_PATH, "pmml")
        /\ pc = "pmml_step_done" \/ args.skip_onnx =>
            /\ OnnxWarning \notin warnings
            /\ Untouched(DEFAULT_ONNX_PATH)
        /\ pc = "done" /\ ~args.skip_onnx =>
            OnnxWarning \in warnings <=> ~WrittenAs(DEFAULT_ONNX_PATH, "onnx")
        /\ args.skip_pmml /\ args.skip_onnx /\ ExportDir \in fs.dirs =>
            DEFAULT_PMML_PATH \in DOMAIN fs.files
        /\ ReportsWritten

\* C22 witness: a run with --skip-pmml alone ended with the earlier run's
\* PMML file untouched, the ONNX file written anew and the reports written.
C22_Witness ==
    /\ script = LGBM
    /\ pc = "done"
    /\ args.skip_pmml /\ ~args.skip_onnx
    /\ WrittenAs(DEFAULT_PMML_PATH, "stale")
    /\ WrittenAs(DEFAULT_ONNX_PATH, "onnx")
    /\ cleaned = NoData
    /\ ReportsWritten


\* ------------------------------------------------------------ C23
\* C23: in train_lightgbm.py, once main() is past the PMML step, skipped or
\* not, returned or failed, the pipeline object of main() is still fitted on
\* the rows of the full training set, the rows it was evaluated with, and an
\* ONNX file the run wrote holds the model fitted on those rows.
C23_RefitLeavesPipeline ==
    script = LGBM /\ pc \in {"pmml_step_done", "done"} =>
        /\ pipeline.fitted
        /\ pipeline.rows = IdxOf(train.X.rows)
        /\ WrittenAs(DEFAULT_ONNX_PATH, "onnx") =>
            fs.files[DEFAULT_ONNX_PATH].rows = IdxOf(train.X.rows)


\* ------------------------------------------------------------ C24
\* The step is a call of export_pipeline_to_onnx / export_pipeline_to_pmml.
OnnxCallStep == calls' # calls
PmmlCallStep == fit = NoFit /\ fit' # NoFit

\* C24: a call of export_pipeline_to_onnx that raises before the file is
\* opened leaves the file system as it was (no directory made, an ONNX file
\* already there unchanged), and one that changes the file system did not
\* raise.  A call of export_pipeline_to_pmml whose re-fit raises leaves the
\* file system as it was, and one that changes it did so after the re-fit
\* completed on the cleaned rows.
C24_WriteAfterSuccess ==
    [][/\ OnnxCallStep /\ err'.at = "convert_sklearn" => fs' = fs
       /\ OnnxCallStep /\ fs' # fs => err' = NoError
       /\ PmmlCallStep /\ err'.at = "pmml_pipeline.fit" => fs' = fs
       /\ PmmlCallStep /\ fs' # fs =>
            /\ err'.at # "pmml_pipeline.fit"
            /\ pipeline'.fitted
            /\ pipeline'.rows = IdxOf(cleaned'.y.rows)]_vars

\* C24 witness: the PMML re-fit raised and then the ONNX conversion raised,
\* and the earlier run's two files and their directory are all there is.
C24_Witness ==
    /\ fit.by = "export_pipeline_to_pmml"
    /\ ~pipeline.fitted
    /\ calls # <<>>
    /\ calls[Len(calls)].raised
    /\ err.at = "convert_sklearn"
    /\ fs = StaleExports

\* C21: in every pipeline variant the fitted categorical branch never raises on
\* a cell of a later file; a present value that the training column did not
\* hold gives a block of zeros as long as the learned categories, a value the
\* training column held sets exactly the indicator of its category, and where
\* the variant imputes, a missing cell sets the indicator of the most frequent
\* training value.
Ones(block) == {i \in 1..Len(block) : block[i] = 1}
SeenInFit(v) == v \in Range(train.X)
C21_UnknownCategoryAllZero ==
    \A k \in 1..Len(calls) :
        LET c == calls[k]
            categories == heap[Len(heap)].learned
        IN  /\ c.err = NoError
            /\ Len(c.block) = Len(categories)
            /\ \A i \in 1..Len(c.block) : c.block[i] \in {0, 1}
            /\ ~IsNa(c.value) /\ ~SeenInFit(c.value) => Ones(c.block) = {}
            /\ ~IsNa(c.value) /\ SeenInFit(c.value) =>
                   \E i \in 1..Len(categories) :
                       categories[i] = c.value /\ Ones(c.block) = {i}
            /\ IsNa(c.value) =>
                   \E i \in 1..Len(categories) :
                       categories[i] = MostFrequent(train.X) /\ Ones(c.block) = {i}

\* An unseen port after a seen one, in the variant without an imputer.
C21_Witness ==
    /\ script = LGBM
    /\ Len(calls) = 2
    /\ Len(heap[1].learned) = 3
    /\ SeenInFit(calls[1].value) /\ Cardinality(Ones(calls[1].block)) = 1
    /\ calls[2].value = Str("X")
    /\ calls[2].err = NoError
    /\ calls[2].block = <<0, 0, 0>>


====
